---------------------------- MODULE Spec2Model ----------------------------
(***************************************************************************)
(* Model of the superconducting TF coil conductor evaluation               *)
(* (SuperconductingTFCoil.supercon / protect) and of the inductive         *)
(* quench-stress model (vv_stress_on_quench) of PROCESS.                   *)
(*                                                                         *)
(* Floating point quantities are carried as fixed-point integers:          *)
(*   temperatures  in 0.1 K          fields        in 0.1 T                *)
(*   strain        in 0.1 %          fractions     in %                    *)
(*   areas         in mm2            currents      in A                    *)
(*   current densities in A/mm2                                            *)
(* Quantities whose exact value matters (dump voltage) are rationals       *)
(* <<numerator, denominator>> in lowest terms.                             *)
(*                                                                         *)
(* The quench-stress model is carried in fixed point with four decimals    *)
(* (1.0 is 10000), in the units m, m2, s, MA, micro-ohm, micro-henry, T    *)
(* and MPa, in which the factors 1e-6 of the source are absorbed.          *)
(***************************************************************************)
EXTENDS Integers, Sequences, FiniteSets, TLC

VARIABLES
    pc,        \* "idle" | "returned" | "raised": position of the caller
    call,      \* the operation last called and its arguments
    ret,       \* the value returned by the last call
    exc,       \* the exception the last call ended with ("none" if it returned)
    store,     \* tfcoil_variables fields written by the conductor evaluation
    diags,     \* error_handling.report_error codes reported by the last call
    logs,      \* logger.warning messages emitted by the last call
    newton,    \* what the last call handed to optimize.newton and how it ended
    lookup,    \* the table positions n_o, n_p the last call of protect used
    cond_frac, \* the conductor fraction the last call of supercon derived, %
    solver     \* the attributes of the Vmcon object that have been assigned

vars ==
    <<pc, call, ret, exc, store, diags, logs, newton, lookup, cond_frac,
      solver>>

---------------------------------------------------------------------------
(* Arithmetic helpers                                                      *)

Abs(x) == IF x < 0 THEN -x ELSE x

\* np.sign
Sign(x) == IF x > 0 THEN 1 ELSE IF x < 0 THEN -1 ELSE 0

\* int(): truncation toward zero of the quotient a / b, b > 0
TruncDiv(a, b) == IF a >= 0 THEN a \div b ELSE -((-a) \div b)

\* quotient a / b rounded to the nearest fixed-point value, b # 0
RoundDiv(a, b) ==
    Sign(a) * Sign(b) * ((2 * Abs(a) + Abs(b)) \div (2 * Abs(b)))

RECURSIVE Gcd(_, _)
Gcd(a, b) == IF b = 0 THEN a ELSE Gcd(b, a % b)

\* the rational n / d (d # 0) in lowest terms with a positive denominator
Rat(n, d) ==
    LET g == Gcd(Abs(n), Abs(d))
        s == Sign(d)
    IN  <<(s * n) \div g, Abs(d) \div g>>

\* r * k and r / k (k # 0), reducing before multiplying
RatMul(r, k) ==
    LET g == Gcd(Abs(k), r[2])
    IN  Rat(r[1] * (k \div g), r[2] \div g)

RatDiv(r, k) ==
    LET g == Gcd(Abs(r[1]), Abs(k))
    IN  IF g = 0 THEN <<0, 1>>
        ELSE Rat((r[1] \div g) * Sign(k), r[2] * (Abs(k) \div g))

\* floor of the square root of n >= 0 (np.sqrt on the fixed-point grid)
RECURSIVE SqrtIter(_, _, _)
SqrtIter(n, lo, hi) ==
    IF lo >= hi THEN lo
    ELSE LET mid == (lo + hi + 1) \div 2
         IN  IF mid * mid <= n THEN SqrtIter(n, mid, hi)
             ELSE SqrtIter(n, lo, mid - 1)

ISqrt(n) == SqrtIter(n, 0, 46340)

\* nan: np.sqrt of a negative argument, 0 / 0, inf - inf, np.log of a
\* negative argument. No finite quantity of the model reaches this value.
NaN == 2000000002

---------------------------------------------------------------------------
(* Material correlation library (process.superconductors)                  *)

\* Largest material id drawn by the model; ids 1..9 are known to the code
MaxMat == 10

\* Largest strain magnitude drawn by the model, in 0.1 %
MaxStrain == 8

\* Critical current density in the superconductor, A/mm2, at temperature T,
\* field B and strain: non-negative, non-increasing in |T| up to tc0m and
\* zero beyond the critical surface.
JCritSurface(T, B, strain, bc20m, tc0m) ==
    LET t == (Abs(T) * 1000) \div tc0m
    IN  IF t >= 1000 \/ B >= bc20m THEN 0
        ELSE LET tfac == (1000000 - t * t) \div 1000
                 bfac == ((bc20m - B) * 100) \div bc20m
                 sfac == 200 - strain * strain
             IN  (tfac * bfac * sfac) \div 20000

\* itersc / western_superconducting_nb3sn / gl_nbti / gl_rebco take the strain;
\* jcrit_nbti and hijc_rebco have no strain argument.
JCritSc(isumat, T, B, strain, bc20m, tc0m) ==
    IF isumat \in {3, 9}
    THEN JCritSurface(T, B, 0, bc20m, tc0m)
    ELSE JCritSurface(T, B, strain, bc20m, tc0m)

\* superconductors.bi2212: critical current density in the strand and the
\* temperature margin, both returned by the correlation itself.
Bi2212(bmax, jstrand, thelium, fhts) ==
    LET jc    == (fhts * (IF 2000 - 5 * bmax - 2 * thelium > 0
                          THEN 2000 - 5 * bmax - 2 * thelium ELSE 0)) \div 100
        tmarg == RoundDiv(jc - jstrand, 20)
    IN  [j_crit_cable |-> jc, tmarg |-> tmarg]

\* superconductors.current_density_margin: j_crit_sc(ttest) - jsc
CurrentDensityMargin(ttest, isumat, jsc, bmax, strain, bc20m, tc0m) ==
    JCritSc(isumat, ttest, bmax, strain, bc20m, tc0m) - jsc

---------------------------------------------------------------------------
(* scipy.optimize.newton as called by supercon: secant method (fprime is   *)
(* None), x0 = thelium, x1 = 2 * thelium, tol = rtol = 1e-6, maxiter = 50, *)
(* disp = True so that a failure to converge raises RuntimeError.          *)

MaxIter == 50

\* np.isclose(p, p1, rtol = 1e-6, atol = 1e-6) with p, p1 in 0.1 K
IsClose(p, p1) == Abs(p - p1) <= (10 + Abs(p1)) \div 1000000

RECURSIVE Secant(_, _, _, _, _, _)

\* a secant iteration that is allowed five steps more
SecantLonger(a, itr, p0, q0, p1, q1) ==
    IF itr = MaxIter + 5
    THEN [status |-> "maxiter", root |-> p1, iterations |-> itr]
    ELSE IF q1 = q0
    THEN IF p1 # p0
         THEN [status |-> "tolerance", root |-> p1, iterations |-> itr + 1]
         ELSE [status |-> "converr", root |-> (p1 + p0) \div 2,
               iterations |-> itr + 1]
    ELSE LET p == p1 - RoundDiv(q1 * (p1 - p0), q1 - q0)
         IN  IF IsClose(p, p1)
             THEN [status |-> "converged", root |-> p, iterations |-> itr + 1]
             ELSE Secant(a, itr + 1, p1, q1, p,
                         CurrentDensityMargin(p, a.isumat, a.jsc, a.bmax,
                                              a.strain, a.bc20m, a.tc0m))

\* the secant iteration of optimize.newton: `for itr in range(maxiter)`
Secant(a, itr, p0, q0, p1, q1) ==
    IF itr = MaxIter
    THEN [status |-> "maxiter", root |-> p1, iterations |-> itr]
    ELSE IF q1 = q0
    THEN IF p1 # p0
         THEN [status |-> "tolerance", root |-> p1, iterations |-> itr + 1]
         ELSE [status |-> "converr", root |-> (p1 + p0) \div 2,
               iterations |-> itr + 1]
    ELSE LET p == p1 - RoundDiv(q1 * (p1 - p0), q1 - q0)
         IN  IF IsClose(p, p1)
             THEN [status |-> "converged", root |-> p, iterations |-> itr + 1]
             ELSE Secant(a, itr + 1, p1, q1, p,
                         CurrentDensityMargin(p, a.isumat, a.jsc, a.bmax,
                                              a.strain, a.bc20m, a.tc0m))

Newton(a, x0, x1) ==
    IF x1 = x0
    THEN [status |-> "x1_eq_x0", root |-> x0, iterations |-> 0]
    ELSE LET f0 == CurrentDensityMargin(x0, a.isumat, a.jsc, a.bmax,
                                        a.strain, a.bc20m, a.tc0m)
             f1 == CurrentDensityMargin(x1, a.isumat, a.jsc, a.bmax,
                                        a.strain, a.bc20m, a.tc0m)
         IN  IF Abs(f1) < Abs(f0)
             THEN Secant(a, 0, x1, f1, x0, f0)
             ELSE Secant(a, 0, x0, f0, x1, f1)

\* optimize.newton called with disp = False: the last iterate is returned
NewtonExcSilent(r) ==
    CASE r.status = "x1_eq_x0" -> "ValueError"
      [] OTHER                 -> "none"

\* the exception optimize.newton ends with, "none" when it returns
NewtonExc(r) ==
    CASE r.status = "converged" -> "none"
      [] r.status = "converr"   -> "none"
      [] r.status = "x1_eq_x0"  -> "ValueError"
      [] OTHER                  -> "RuntimeError"

---------------------------------------------------------------------------
(* SuperconductingTFCoil.protect                                           *)

\* Integration coefficients p1, p2, p3, in 0.01
P1 == <<0, 80, 175, 240, 270, 295, 310, 320, 330, 340, 350>>
P2 == <<0, 5, 50, 140, 260, 370, 460, 530, 595, 655, 710>>
P3 == <<0, 5, 50, 140, 260, 370, 460, 540, 605, 680, 720>>

\* Python tuple indexing p[i] on a tuple of 11 entries: a negative index
\* counts from the end, an index outside -11..10 raises IndexError.
IndexOk(i) == i >= -Len(P1) /\ i <= Len(P1) - 1
TupleGet(p, i) == IF i >= 0 THEN p[i + 1] ELSE p[Len(p) + i + 1]

\* n_o = int(tav) with tav = 1 + (tmax - tba) / 20, temperatures in 0.1 K
TableLower(tba, tmax) == TruncDiv(200 + tmax - tba, 200)

\* n_p = min(n_o + 1, 11)
TableUpper(n_o) == IF n_o + 1 < 11 THEN n_o + 1 ELSE 11

\* 1e16 * (p[n_o - 1] + (p[n_p - 1] - p[n_o - 1]) * (tav - n_o)), in 1e16 / 20000
Interpolate(p, n_o, n_p, tba, tmax) ==
    TupleGet(p, n_o - 1) * 200
      + (TupleGet(p, n_p - 1) - TupleGet(p, n_o - 1))
          * (200 + tmax - tba - 200 * n_o)

\* a dump voltage taken as stored energy over charge, without the factor 2
DumpVoltageNoFactor(aio, tfes, tdump) == Rat(tfes, tdump * aio)

\* vd = 2 * tfes / (tdump * aio)
DumpVoltage(aio, tfes, tdump) == Rat(2 * tfes, tdump * aio)

Protect(aio, tfes, acs, aturn, tdump, fcond, fcu, tba, tmax) ==
    LET vd   == DumpVoltage(aio, tfes, tdump)
        n_o  == TableLower(tba, tmax)
        n_p  == TableUpper(n_o)
    IN  IF ~(IndexOk(n_o - 1) /\ IndexOk(n_p - 1))
        THEN [exc |-> "IndexError", n_o |-> n_o, n_p |-> n_p,
              ajwpro |-> 0, vd |-> vd]
        ELSE
          LET ai1  == Interpolate(P1, n_o, n_p, tba, tmax)
              ai2  == Interpolate(P2, n_o, n_p, tba, tmax)
              ai3  == Interpolate(P3, n_o, n_p, tba, tmax)
              aa   == RatDiv(RatMul(vd, aio), tfes)
              bb   == (((100 - fcond) * fcond * fcu) \div 1000) * ai1
              cc   == (((fcu * fcond) * (fcu * fcond)) \div 100000) * ai2
              dd   == (((100 - fcu) * fcu * fcond * fcond) \div 100000) * ai3
              rad  == ((bb + cc + dd) \div aa[2]) * aa[1]
              ajcp == ISqrt(rad)
          IN  [exc |-> "none", n_o |-> n_o, n_p |-> n_p,
               ajwpro |-> IF rad < 0 THEN NaN ELSE (ajcp * acs) \div aturn,
               vd |-> vd]

---------------------------------------------------------------------------
(* SuperconductingTFCoil.supercon                                          *)

StrainLimitLTS == 5
StrainLimitREBCO == 7

NoExc == [type |-> "none", message |-> "", args |-> << >>]
NoRet == [op |-> "none"]
NoNewton == [calls |-> 0, strain |-> 0, jsc |-> 0, x0 |-> 0, x1 |-> 0,
             status |-> "none", iterations |-> 0]
NoLookup == [calls |-> 0, n_o |-> 0, n_p |-> 0]

\* a helium fraction without the cap
HeliumFractionUncapped(fhe, dia, acs) ==
    fhe + (785 * dia * dia) \div (10 * acs)

\* fhetot = fhe + (pi / 4) * dia^2 / acs, capped at 0.99; in %
HeliumFraction(fhe, dia, acs) ==
    LET fhetot == fhe + (785 * dia * dia) \div (10 * acs)
    IN  IF fhetot > 99 THEN 99 ELSE fhetot

\* strain = str_tf_con_res if i_str_wp == 0 else str_wp
InputStrain(a) == IF a.i_str_wp = 0 THEN a.str_tf_con_res ELSE a.str_wp

\* the materials whose branch tests abs(strain) against a limit
HasStrainLimit(isumat) == isumat \in {1, 4, 5, 8, 9}

StrainLimit(isumat) ==
    IF isumat \in {8, 9} THEN StrainLimitREBCO ELSE StrainLimitLTS

\* strain = np.sign(strain) * limit when abs(strain) > limit
ClipStrain(isumat, strain) ==
    IF HasStrainLimit(isumat) /\ Abs(strain) > StrainLimit(isumat)
    THEN Sign(strain) * StrainLimit(isumat)
    ELSE strain

\* report_error(261) is made exactly when the strain is replaced
StrainDiag(isumat, strain) ==
    IF HasStrainLimit(isumat) /\ Abs(strain) > StrainLimit(isumat)
    THEN {261} ELSE {}

\* bc20m and tc0m of each material branch, in 0.1 T and 0.1 K
Bc20m(a) ==
    CASE a.isumat \in {1, 5} -> 330
      [] a.isumat = 3        -> 150
      [] a.isumat = 4        -> a.bcritsc
      [] a.isumat = 7        -> a.b_crit_upper_nbti
      [] a.isumat = 8        -> 4300
      [] a.isumat = 9        -> 1380
      [] OTHER               -> 0

Tc0m(a) ==
    CASE a.isumat \in {1, 5} -> 161
      [] a.isumat = 3        -> 93
      [] a.isumat = 4        -> a.tcritsc
      [] a.isumat = 7        -> a.t_crit_nbti
      [] a.isumat = 8        -> 1850
      [] a.isumat = 9        -> 920
      [] OTHER               -> 0

\* the strain the material branch hands to its correlation
CorrelationStrain(isumat, strain0) == ClipStrain(isumat, strain0)

\* a root-finder handed the strain as read from the store
NewtonStrainUnclipped(isumat, strain0) == strain0

\* the strain placed in the root-finder's arguments (the local `strain`
\* after the material branch)
NewtonStrain(isumat, strain0) == ClipStrain(isumat, strain0)

\* a chain without the isumat == 6 branch, 6 falling in with Bi-2212
MaterialCaseNoCroco(isumat) ==
    CASE isumat \in {1, 3, 4, 5, 7, 8, 9} -> "correlation"
      [] isumat \in {2, 6}                -> "bi2212"
      [] OTHER                            -> "illegal"

\* the branch of the if / elif chain on isumat that is taken
MaterialCase(isumat) ==
    CASE isumat \in {1, 3, 4, 5, 7, 8, 9} -> "correlation"
      [] isumat = 2                       -> "bi2212"
      [] isumat = 6                       -> "croco"
      [] OTHER                            -> "illegal"

\* raise ProcessValueError("sctfcoil.supercon has been called but ...=6")
CrocoError ==
    [type |-> "ProcessValueError",
     message |-> "sctfcoil.supercon has been called but tfcoil_variables.i_tf_sc_mat=6",
     args |-> << >>]

\* the error raised without the isumat keyword
IllegalMaterialErrorNoId(isumat) ==
    [type |-> "ProcessValueError",
     message |-> "Illegal value for i_tf_sc_mat",
     args |-> << >>]

\* raise ProcessValueError("Illegal value for i_tf_sc_mat", isumat=isumat)
IllegalMaterialError(isumat) ==
    [type |-> "ProcessValueError",
     message |-> "Illegal value for i_tf_sc_mat",
     args |-> <<isumat>>]

\* The if / elif chain on isumat: what each branch computes, or the
\* exception it raises.
MaterialBranch(a, fcond) ==
    LET strain0 == InputStrain(a)
        bc20m   == Bc20m(a)
        tc0m    == Tc0m(a)
        branch  == MaterialCase(a.isumat)
    IN
    CASE branch = "correlation" ->
           LET j_crit_sc    == JCritSc(a.isumat, a.thelium, a.bmax,
                                       CorrelationStrain(a.isumat, strain0),
                                       bc20m, tc0m)
               j_crit_cable == (j_crit_sc * (100 - a.fcu) * fcond) \div 10000
           IN  [exc |-> NoExc,
                diags |-> StrainDiag(a.isumat, strain0),
                strain |-> NewtonStrain(a.isumat, strain0),
                bc20m |-> bc20m, tc0m |-> tc0m,
                j_crit_sc |-> j_crit_sc,
                j_crit_cable |-> j_crit_cable,
                icrit |-> j_crit_cable * a.acs,
                j_crit_str_tf |-> IF a.isumat = 8 THEN j_crit_sc
                                  ELSE (j_crit_sc * (100 - a.fcu)) \div 100,
                tmarg |-> 0]
      [] branch = "bi2212" ->
           LET jstrand == (a.jwp * a.aturn * 100) \div (a.acs * fcond)
               bi      == Bi2212(a.bmax, jstrand, a.thelium, a.fhts)
               j_crit_sc == (bi.j_crit_cable * 100) \div (100 - a.fcu)
           IN  [exc |-> NoExc, diags |-> {}, strain |-> strain0,
                bc20m |-> 0, tc0m |-> 0,
                j_crit_sc |-> j_crit_sc,
                j_crit_cable |-> bi.j_crit_cable,
                icrit |-> (bi.j_crit_cable * a.acs * fcond) \div 100,
                j_crit_str_tf |-> j_crit_sc,
                tmarg |-> bi.tmarg]
      [] branch = "croco" -> [exc |-> CrocoError]
      [] OTHER -> [exc |-> IllegalMaterialError(a.isumat)]

\* a test of the material that leaves NbTi (3) out of the root-finding
UsesRootFinderNoNbTi(isumat) == isumat \in {1, 4, 5, 7, 8, 9}

\* the materials for which supercon runs the root-finder
UsesRootFinder(isumat) == isumat \in {1, 3, 4, 5, 7, 8, 9}

\* a margin taken to be the root itself
MarginFromRootAbsolute(t_zero_margin, thelium) == t_zero_margin

\* tmarg = t_zero_margin - thelium
MarginFromRoot(t_zero_margin, thelium) == t_zero_margin - thelium

\* a test of the ratio that never finds it non-positive
IooicNonPositiveNever(iop, icrit) == FALSE

\* iooic <= 0 with iooic = iop / icrit
IooicNonPositive(iop, icrit) == iop * Sign(icrit) <= 0

\* the warning of the output block: made only under `if output:`
MarginWarning(output, tmarg) ==
    IF output /\ tmarg <= 0
    THEN {"Negative TFC temperature margin"} ELSE {}

\* The call's outcome: how it ended, what it returned, the store it leaves
\* and what it reported on the way.
Outcome(pc0, exc0, ret0, st, diags0, logs0, nw, lk, fcond) ==
    [pc |-> pc0, exc |-> exc0, ret |-> ret0, store |-> st, diags |-> diags0,
     logs |-> logs0, newton |-> nw, lookup |-> lk, fcond |-> fcond]

\* the protection limit, the output block's warning and the return
SuperconProtect(a, st2, fcond, diags1, logs1, nw, tmarg, jcritwp, pr) ==
    IF pr.exc # "none"
    THEN Outcome("raised",
                 [type |-> pr.exc, message |-> "tuple index out of range",
                  args |-> << >>],
                 NoRet, st2, diags1, logs1, nw,
                 [calls |-> 1, n_o |-> pr.n_o, n_p |-> pr.n_p], fcond)
    ELSE Outcome("returned", NoExc,
                 [op |-> "supercon", j_tf_wp_critical |-> jcritwp,
                  vd |-> pr.vd, tmarg |-> tmarg],
                 [st2 EXCEPT !.jwdgpro = pr.ajwpro], diags1,
                 logs1 \cup MarginWarning(a.output, tmarg), nw,
                 [calls |-> 1, n_o |-> pr.n_o, n_p |-> pr.n_p], fcond)

\* a material with the margin found by the root-finder: the root-finder's
\* exception propagates, else tmarg = t_zero_margin - thelium is stored
SuperconRoot(a, st1, fcond, m, diags1, logs1, jsc, root) ==
    IF NewtonExc(root) # "none"
    THEN Outcome("raised",
                 [type |-> NewtonExc(root), message |-> root.status,
                  args |-> << >>],
                 NoRet, st1, diags1, logs1,
                 [calls |-> 1, strain |-> m.strain, jsc |-> jsc,
                  x0 |-> a.thelium, x1 |-> 2 * a.thelium,
                  status |-> root.status, iterations |-> root.iterations],
                 NoLookup, fcond)
    ELSE SuperconProtect(a,
                         [st1 EXCEPT !.temp_margin =
                                         MarginFromRoot(root.root, a.thelium)],
                         fcond, diags1, logs1,
                         [calls |-> 1, strain |-> m.strain, jsc |-> jsc,
                          x0 |-> a.thelium, x1 |-> 2 * a.thelium,
                          status |-> root.status,
                          iterations |-> root.iterations],
                         MarginFromRoot(root.root, a.thelium),
                         m.icrit \div a.aturn,
                         Protect(a.iop, a.tfes, a.acs, a.aturn, a.tdmptf,
                                 fcond, a.fcu, a.thelium, a.tmax))

\* the arguments tuple handed to optimize.newton
NewtonArgs(a, m, jsc) ==
    [isumat |-> a.isumat, jsc |-> jsc, bmax |-> a.bmax, strain |-> m.strain,
     bc20m |-> m.bc20m, tc0m |-> m.tc0m]

\* from the critical current to the temperature margin
SuperconMargin(a, st1, fcond, m, diags1, logs1, jsc) ==
    IF UsesRootFinder(a.isumat)
    THEN SuperconRoot(a, st1, fcond, m, diags1, logs1, jsc,
                      Newton(NewtonArgs(a, m, jsc), a.thelium, 2 * a.thelium))
    ELSE SuperconProtect(a, st1, fcond, diags1, logs1, NoNewton, m.tmarg,
                         m.icrit \div a.aturn,
                         Protect(a.iop, a.tfes, a.acs, a.aturn, a.tdmptf,
                                 fcond, a.fcu, a.thelium, a.tmax))

\* after the material branch: its exception propagates with the store as
\* it was, else j_crit_str_tf is stored and the operating point follows
\* a material branch that clears the stored margin before it raises
SuperconBranchClearing(a, st, fcond, m) ==
    IF m.exc.type # "none"
    THEN Outcome("raised", m.exc, NoRet, [st EXCEPT !.temp_margin = 0],
                 {}, {}, NoNewton, NoLookup, fcond)
    ELSE SuperconMargin(a, [st EXCEPT !.j_crit_str_tf = m.j_crit_str_tf],
                        fcond, m,
                        m.diags \cup (IF a.isumat = 8 /\ a.bmaxtfrp >= 140
                                      THEN {266} ELSE {}),
                        IF IooicNonPositive(a.iop, m.icrit)
                        THEN {"Negative Iop/Icrit for TF coil"} ELSE {},
                        RoundDiv(a.iop * m.j_crit_sc, m.icrit))

SuperconBranch(a, st, fcond, m) ==
    IF m.exc.type # "none"
    THEN Outcome("raised", m.exc, NoRet, st, {}, {}, NoNewton, NoLookup,
                 fcond)
    ELSE SuperconMargin(a, [st EXCEPT !.j_crit_str_tf = m.j_crit_str_tf],
                        fcond, m,
                        m.diags \cup (IF a.isumat = 8 /\ a.bmaxtfrp >= 140
                                      THEN {266} ELSE {}),
                        IF IooicNonPositive(a.iop, m.icrit)
                        THEN {"Negative Iop/Icrit for TF coil"} ELSE {},
                        RoundDiv(a.iop * m.j_crit_sc, m.icrit))

SuperconFraction(a, st, fcond) ==
    SuperconBranch(a, st, fcond, MaterialBranch(a, fcond))

\* The body of supercon, as the outcome of the whole call.
Supercon(a, st) ==
    SuperconFraction(a, st,
        100 - HeliumFraction(a.fhe, a.dia_tf_turn_coolant_channel, a.acs))

---------------------------------------------------------------------------
(* SuperconductingTFCoil.supercon_croco                                    *)
(* Lengths in 0.1 mm, areas in mm2.                                        *)

\* superconductors.jcrit_rebco(thelium, bmax): critical current density of
\* the tape, A/mm2, falling linearly to zero at the critical temperature
JcritRebco(T, B) ==
    IF T >= 900 \/ B >= 1380 THEN 0 ELSE ((900 - T) * (1380 - B)) \div 400

\* superconductors.croco: areas and critical currents of one strand and of
\* the conductor of six strands around a copper core
Croco(j_crit_sc, conductor_area, croco_od, croco_thick) ==
    LET strand_area == (7854 * croco_od * croco_od) \div 1000000
        strand_ic   == (j_crit_sc * strand_area) \div 10
    IN  [croco_strand_area |-> strand_area,
         croco_strand_critical_current |-> strand_ic,
         conductor_copper_area |->
             6 * ((31416 * croco_thick * (croco_od - croco_thick))
                    \div 1000000),
         conductor_critical_current |-> 6 * strand_ic]

\* superconductors.current_sharing_rebco(bmax, jsc): the temperature at
\* which jcrit_rebco equals jsc
CurrentSharingRebco(B, jsc) == 900 - RoundDiv(jsc * 400, 1380 - B)

\* croco_od = t_conductor / 3 - dx_tf_turn_steel * (2 / 3)
CrocoOd(t_conductor, dx_tf_turn_steel) ==
    (t_conductor - 2 * dx_tf_turn_steel) \div 3

\* conductor_acs = 9 / 4 * pi * croco_od ** 2
ConductorAcs(croco_od) == (7069 * croco_od * croco_od) \div 100000

\* from the strand's critical current to the return
SuperconCrocoMargin(a, st, acs, c, j_crit_sc) ==
    Outcome("returned", NoExc,
            [op |-> "supercon_croco",
             j_tf_wp_critical |-> c.conductor_critical_current \div a.aturn,
             tmarg |-> CurrentSharingRebco(
                           a.bmax,
                           RoundDiv(a.iop * j_crit_sc,
                                    c.conductor_critical_current))
                         - a.thelium],
            [st EXCEPT
               !.a_tf_turn_cable_space = acs,
               !.a_tf_turn_steel = (a.t_conductor * a.t_conductor) \div 100
                                     - acs,
               !.coppera_m2 = a.iop \div c.conductor_copper_area,
               !.temp_margin = CurrentSharingRebco(
                                   a.bmax,
                                   RoundDiv(a.iop * j_crit_sc,
                                            c.conductor_critical_current))
                                 - a.thelium],
            {},
            MarginWarning(a.output,
                          CurrentSharingRebco(
                              a.bmax,
                              RoundDiv(a.iop * j_crit_sc,
                                       c.conductor_critical_current))
                            - a.thelium),
            NoNewton, NoLookup, 0)

SuperconCrocoStrand(a, st, croco_od, j_crit_sc) ==
    SuperconCrocoMargin(a, st, ConductorAcs(croco_od),
                        Croco(j_crit_sc,
                              (a.t_conductor * a.t_conductor) \div 100,
                              croco_od, a.croco_thick),
                        j_crit_sc)

\* The body of supercon_croco, as the outcome of the whole call.
SuperconCroco(a, st) ==
    SuperconCrocoStrand(a, st, CrocoOd(a.t_conductor, a.dx_tf_turn_steel),
                        JcritRebco(a.thelium, a.bmax))

---------------------------------------------------------------------------
(* The calls the model makes                                               *)

\* material ids handed to supercon: every known id and an unknown one on
\* each side
Materials == 0 .. MaxMat

\* strains, in 0.1 %: within every limit, between the two limits and
\* beyond both, of either sign
Strains == {-MaxStrain, -6, 0, 6, MaxStrain}

\* operating currents, in A: reversed, below and above the critical current
Currents == {-20000, 90000, 240000}

SuperconArgs ==
    [acs : {1000}, aturn : {2000}, bmax : {60}, fhe : {30}, fcu : {50},
     iop : Currents, jwp : {30}, isumat : Materials, fhts : {50},
     tdmptf : {10}, tfes : {9000}, thelium : {45}, tmax : {1500},
     bcritsc : {240}, tcritsc : {160}, output : BOOLEAN,
     dia_tf_turn_coolant_channel : {5}, i_str_wp : {1},
     str_tf_con_res : {-5}, str_wp : Strains, bmaxtfrp : {60},
     b_crit_upper_nbti : {149}, t_crit_nbti : {90}]

\* arguments and store fields read by supercon_croco
CrocoArgs ==
    [aturn : {2000}, bmax : {60}, iop : Currents, thelium : {45},
     output : BOOLEAN, t_conductor : {500}, dx_tf_turn_steel : {50},
     croco_thick : {25}]

InitStore ==
    [j_crit_str_tf |-> 0, temp_margin |-> 0, jwdgpro |-> 0,
     a_tf_turn_cable_space |-> 0, a_tf_turn_steel |-> 0, coppera_m2 |-> 0,
     a_tf_turn_insulation |-> 0, n_tf_coil_turns |-> 0, c_tf_turn |-> 0,
     t_turn_tf |-> 0, t_conductor |-> 0, t_cable |-> 0, rbcndut |-> 0,
     dr_tf_turn |-> 0, dx_tf_turn |-> 0, t_conductor_radial |-> 0,
     t_conductor_toroidal |-> 0, dr_tf_turn_cable_space |-> 0,
     dx_tf_turn_cable_space |-> 0, j_tf_wp |-> 0,
     r_wp_inner |-> 0, r_wp_outer |-> 0, r_wp_centre |-> 0,
     t_wp_toroidal |-> 0, t_wp_toroidal_av |-> 0, wwp1 |-> 0, wwp2 |-> 0,
     awpc |-> 0, awptf |-> 0, a_ground_ins |-> 0, acasetf |-> 0,
     acasetfo |-> 0, a_case_front |-> 0, a_case_nose |-> 0,
     t_lat_case_av |-> 0, a_tf_wp_coolant_channels |-> 0, acond |-> 0,
     avwp |-> 0, a_tf_coil_wp_turn_insulation |-> 0, aswp |-> 0,
     a_tf_steel |-> 0, f_tf_steel |-> 0, a_tf_ins |-> 0, f_tf_ins |-> 0,
     j_tf_wp_critical |-> 0, tmargtf |-> 0, vtfskv |-> <<0, 1>>,
     sig_tf_case |-> 0, sig_tf_wp |-> 0, vv_stress_quench |-> 0]

\* _Solver.__init__: ifail = 0 (the tolerance and b are left out); info,
\* x, objf and conf are not attributes of the object yet
InitSolver == [ifail |-> 0]

Init ==
    /\ pc = "idle"
    /\ call = [op |-> "none"]
    /\ ret = NoRet
    /\ exc = NoExc
    /\ store = InitStore
    /\ diags = {}
    /\ logs = {}
    /\ newton = NoNewton
    /\ lookup = NoLookup
    /\ cond_frac = 0
    /\ solver = InitSolver

\* one call of supercon, from its entry to its return or raise
CallSupercon ==
    /\ pc = "idle"
    /\ \E a \in SuperconArgs :
         \E r \in {Supercon(a, store)} :
             /\ call' = [op |-> "supercon", args |-> a]
             /\ pc' = r.pc
             /\ ret' = r.ret
             /\ exc' = r.exc
             /\ store' = r.store
             /\ diags' = r.diags
             /\ logs' = r.logs
             /\ newton' = r.newton
             /\ lookup' = r.lookup
             /\ cond_frac' = r.fcond
             /\ UNCHANGED solver

\* one call of supercon_croco, from its entry to its return
CallSuperconCroco ==
    /\ pc = "idle"
    /\ \E a \in CrocoArgs :
         \E r \in {SuperconCroco(a, store)} :
             /\ call' = [op |-> "supercon_croco", args |-> a]
             /\ pc' = r.pc
             /\ ret' = r.ret
             /\ exc' = r.exc
             /\ store' = r.store
             /\ diags' = r.diags
             /\ logs' = r.logs
             /\ newton' = r.newton
             /\ lookup' = r.lookup
             /\ cond_frac' = r.fcond
             /\ UNCHANGED solver

\* the caller takes the outcome and goes on to its next evaluation; the
\* store keeps what the call wrote
NextEvaluation ==
    /\ pc \in {"returned", "raised"}
    /\ pc' = "idle"
    /\ call' = [op |-> "none"]
    /\ ret' = NoRet
    /\ exc' = NoExc
    /\ diags' = {}
    /\ logs' = {}
    /\ newton' = NoNewton
    /\ lookup' = NoLookup
    /\ cond_frac' = 0
    /\ UNCHANGED <<store, solver>>

NextSupercon == CallSupercon \/ CallSuperconCroco \/ NextEvaluation

SpecSupercon == Init /\ [][NextSupercon]_vars

---------------------------------------------------------------------------
(* Properties of supercon                                                  *)

SuperconCalled == pc # "idle" /\ call.op = "supercon"

\* the arguments of the last call with the strain it read replaced by x
WithStrain(a, x) == [a EXCEPT !.str_tf_con_res = x, !.str_wp = x]

\* C1: for materials 1, 4 and 5 a call of supercon with |strain| > 0.5 %
\* reports diagnostic 261, ends exactly as the call with strain =
\* sign(strain) * 0.5 % and all else equal ends (same returned
\* j_tf_wp_critical, vd and tmarg, or the same exception), and the
\* root-finder is handed the clamped strain.
StrainClampEquivalence ==
    (/\ SuperconCalled
     /\ call.args.isumat \in {1, 4, 5}
     /\ Abs(InputStrain(call.args)) > StrainLimitLTS)
    => LET s0      == InputStrain(call.args)
           clamped == Sign(s0) * StrainLimitLTS
           r       == Supercon(WithStrain(call.args, clamped), InitStore)
       IN  /\ 261 \in diags
           /\ pc = r.pc
           /\ ret = r.ret
           /\ exc = r.exc
           /\ 261 \notin r.diags
           /\ newton.calls = 1
           /\ newton.strain = clamped

StrainClampWitness ==
    /\ SuperconCalled
    /\ pc = "returned"
    /\ call.args.isumat \in {1, 4, 5}
    /\ InputStrain(call.args) = -MaxStrain
    /\ 261 \in diags
    /\ newton.status = "converged"
    /\ newton.strain = -StrainLimitLTS

\* the limit the strain is said to be held to, per material family
FamilyLimit(isumat) ==
    IF isumat \in {8, 9} THEN StrainLimitREBCO ELSE StrainLimitLTS

\* C2: for every material of the generic path whose margin is root-found
\* (1, 3, 4, 5, 7 at 0.5 %; 8, 9 at 0.7 %) the strain handed on by supercon
\* never exceeds the family limit in magnitude.
StrainWithinFamilyLimit ==
    (/\ SuperconCalled
     /\ call.args.isumat \in {1, 3, 4, 5, 7, 8, 9}
     /\ newton.calls = 1)
    => Abs(newton.strain) <= FamilyLimit(call.args.isumat)

\* C3: supercon called with a material id that is none of 1..9 raises
\* ProcessValueError carrying the id and returns no result.
UnknownMaterialRaises ==
    (SuperconCalled /\ call.args.isumat \notin 1 .. 9)
    => /\ pc = "raised"
       /\ exc.type = "ProcessValueError"
       /\ exc.args = <<call.args.isumat>>
       /\ ret = NoRet

UnknownMaterialWitness ==
    /\ SuperconCalled
    /\ call.args.isumat = MaxMat
    /\ pc = "raised"
    /\ exc.args = <<MaxMat>>

\* C4: supercon called with material id 6 raises ProcessValueError and
\* reaches neither the root-finder nor protect.
CrocoRejected ==
    (SuperconCalled /\ call.args.isumat = 6)
    => /\ pc = "raised"
       /\ exc = CrocoError
       /\ ret = NoRet
       /\ newton.calls = 0
       /\ lookup.calls = 0

CrocoRejectedWitness ==
    /\ SuperconCalled
    /\ call.args.isumat = 6
    /\ pc = "raised"
    /\ exc.type = "ProcessValueError"

\* C5: when the root-finder has not met its tolerance after 50 iterations
\* supercon returns no temperature margin: the call ends with an exception.
NonConvergenceSurfaced ==
    (SuperconCalled /\ newton.calls = 1 /\ newton.status = "maxiter")
    => /\ pc = "raised"
       /\ exc.type = "RuntimeError"
       /\ ret = NoRet

NonConvergenceWitness ==
    /\ SuperconCalled
    /\ newton.status = "maxiter"
    /\ newton.iterations = MaxIter
    /\ pc = "raised"

\* C10: whenever a conductor evaluation (supercon or supercon_croco)
\* returns a temperature margin <= 0, the soft diagnostic "Negative TFC
\* temperature margin" has been emitted by that call, with or without
\* output printing.
NonPositiveMarginReported ==
    (/\ pc = "returned"
     /\ call.op \in {"supercon", "supercon_croco"}
     /\ ret.tmarg <= 0)
    => "Negative TFC temperature margin" \in logs

\* C11: for material 2 (Bi-2212) supercon never calls the root-finder and
\* the margin it returns is the margin the Bi-2212 correlation returned; for
\* each of the materials 1, 3, 4, 5, 7, 8, 9 the root-finder is called
\* exactly once.
Bi2212BypassesRootFinder ==
    SuperconCalled
    => /\ call.args.isumat = 2
            => /\ newton.calls = 0
               /\ pc = "returned"
                    => ret.tmarg =
                         Bi2212(call.args.bmax,
                                (call.args.jwp * call.args.aturn * 100)
                                   \div (call.args.acs * cond_frac),
                                call.args.thelium, call.args.fhts).tmarg
       /\ call.args.isumat \in {1, 3, 4, 5, 7, 8, 9} => newton.calls = 1

Bi2212Witness ==
    /\ SuperconCalled
    /\ call.args.isumat = 2
    /\ pc = "returned"
    /\ newton.calls = 0
    /\ ret.tmarg > 0

\* jsc = (iop / icrit) * j_crit_sc at thelium, from the arguments of a call
MarginJsc(a, fcond) ==
    LET jc == JCritSc(a.isumat, a.thelium, a.bmax,
                      ClipStrain(a.isumat, InputStrain(a)), Bc20m(a), Tc0m(a))
    IN  RoundDiv(a.iop * jc, ((jc * (100 - a.fcu) * fcond) \div 10000) * a.acs)

\* the root of j_crit_sc(T, bmax, strain) = jsc reached from the first point
\* thelium and the second point 2 * thelium
MarginRoot(a, fcond) ==
    Newton([isumat |-> a.isumat, jsc |-> MarginJsc(a, fcond),
            bmax |-> a.bmax,
            strain |-> ClipStrain(a.isumat, InputStrain(a)),
            bc20m |-> Bc20m(a), tc0m |-> Tc0m(a)],
           a.thelium, 2 * a.thelium)

\* C12: for materials 1, 3, 4, 5, 7, 8, 9 the margin supercon returns is
\* T* - thelium, T* being the root of j_crit_sc(T, bmax, strain) = jsc found
\* from thelium and 2 * thelium within at most 50 iterations.
MarginIsRootMinusHelium ==
    (/\ SuperconCalled
     /\ pc = "returned"
     /\ call.args.isumat \in {1, 3, 4, 5, 7, 8, 9})
    => /\ ret.tmarg = MarginRoot(call.args, cond_frac).root
                        - call.args.thelium
       /\ store.temp_margin = ret.tmarg
       /\ newton.x0 = call.args.thelium
       /\ newton.x1 = 2 * call.args.thelium
       /\ newton.jsc = MarginJsc(call.args, cond_frac)
       /\ newton.iterations <= MaxIter
       /\ newton.status \in {"converged", "converr"}

MarginIsRootWitness ==
    /\ SuperconCalled
    /\ pc = "returned"
    /\ call.args.isumat = 3
    /\ newton.status = "converged"
    /\ newton.iterations > 1
    /\ ret.tmarg > 0
    /\ ret.tmarg # newton.x0

\* C22: the root-find of supercon always ends: it makes at most 50
\* iterations, after which the call has returned or has failed.
RootFindBounded ==
    (SuperconCalled /\ newton.calls = 1)
    => /\ newton.iterations \in 0 .. MaxIter
       /\ newton.status \in {"converged", "converr", "tolerance", "maxiter"}
       /\ pc \in {"returned", "raised"}
       /\ newton.status = "maxiter"
            => newton.iterations = MaxIter /\ pc = "raised"
       /\ pc = "returned" => DOMAIN ret = {"op", "j_tf_wp_critical", "vd",
                                           "tmarg"}

\* a root-find that used all its iterations and then failed
RootFindBoundedWitness ==
    /\ SuperconCalled
    /\ newton.calls = 1
    /\ newton.iterations = MaxIter
    /\ newton.status = "maxiter"
    /\ exc.type = "RuntimeError"

\* the material ids supercon rejects: 6 and every id it does not know
RejectedMaterials == {6} \cup (Materials \ {1, 2, 3, 4, 5, 7, 8, 9})

\* C27: when supercon raises for material 6 or for an unknown id, the call
\* has written no field of the store (j_crit_str_tf, temp_margin, jwdgpro
\* are as they were) and has reported no diagnostic.
HardFailureLeavesStore ==
    [][(/\ pc = "idle"
        /\ call'.op = "supercon"
        /\ call'.args.isumat \in RejectedMaterials)
       => /\ pc' = "raised"
          /\ store' = store
          /\ diags' = {}
          /\ logs' = {}]_vars

\* a rejected call made on a store that an earlier evaluation has written
HardFailureWitness ==
    /\ SuperconCalled
    /\ call.args.isumat \in RejectedMaterials
    /\ pc = "raised"
    /\ exc.type = "ProcessValueError"
    /\ store.temp_margin # 0
    /\ store.jwdgpro # 0
    /\ diags = {}

\* C28: after every conductor evaluation that returns (supercon for the
\* materials 1, 2, 3, 4, 5, 7, 8, 9, or supercon_croco) the store field
\* temp_margin equals the temperature margin the call returned; it never
\* holds the margin of an earlier evaluation.
StoredMarginIsReturned ==
    (pc = "returned" /\ call.op \in {"supercon", "supercon_croco"})
    => store.temp_margin = ret.tmarg

\* Largest coolant channel diameter drawn, in mm
MaxChannel == 40

\* calls at 1 kA whose coolant channel is small, as wide as the cable
\* space, and wider than it
ChannelArgs ==
    {[a EXCEPT !.dia_tf_turn_coolant_channel = d, !.fhe = h,
               !.iop = 1000] :
        a \in {b \in SuperconArgs : b.iop = 90000 /\ b.str_wp = 0},
        d \in {5, 36, MaxChannel}, h \in {0, 30}}

\* one call of supercon with one of these coolant channels
CallSuperconChannel ==
    /\ pc = "idle"
    /\ \E a \in ChannelArgs :
         \E r \in {Supercon(a, store)} :
             /\ call' = [op |-> "supercon", args |-> a]
             /\ pc' = r.pc
             /\ ret' = r.ret
             /\ exc' = r.exc
             /\ store' = r.store
             /\ diags' = r.diags
             /\ logs' = r.logs
             /\ newton' = r.newton
             /\ lookup' = r.lookup
             /\ cond_frac' = r.fcond
             /\ UNCHANGED solver

NextChannel == CallSuperconChannel \/ NextEvaluation

SpecChannel == Init /\ [][NextChannel]_vars

\* the helium fraction of the last call before the cap, in %
RawHelium ==
    HeliumFractionUncapped(call.args.fhe,
                           call.args.dia_tf_turn_coolant_channel,
                           call.args.acs)

\* C24: the total helium fraction is capped at 0.99, so the conductor
\* fraction supercon works with is 1 - fhetot >= 0.01 for every input.
ConductorFractionFloor ==
    SuperconCalled
    => /\ cond_frac >= 1
       /\ cond_frac = 100 - (IF RawHelium > 99 THEN 99 ELSE RawHelium)

\* the coolant channel is wider than the cable space and the cap acted
ConductorFractionWitness ==
    /\ SuperconCalled
    /\ RawHelium > 100
    /\ cond_frac = 1
    /\ pc = "returned"

\* the material branch of the last call of supercon
BranchOfCall == MaterialBranch(call.args, cond_frac)

\* the call met iooic <= 0 after a material branch that did not raise
IooicMet ==
    /\ SuperconCalled
    /\ BranchOfCall.exc.type = "none"
    /\ call.args.iop * Sign(BranchOfCall.icrit) <= 0

---------------------------------------------------------------------------
(* SuperconductingTFCoil.protect called on its own                         *)

\* Largest quench temperature drawn, in 0.1 K
MaxTmax == 2300

\* below the helium temperature, inside the table, in its last interval
\* and beyond it
QuenchTemperatures == {20, 1500, 2100, MaxTmax}

ProtectArgs ==
    [aio : {4000, 8000, 16000}, tfes : {45, 90}, acs : {1000, 1500},
     aturn : {2000}, tdump : {5, 10, 20}, fcond : {50, 69}, fcu : {50, 70},
     tba : {45, 200}, tmax : QuenchTemperatures]

\* one call of protect, from its entry to its return or raise
CallProtect ==
    /\ pc = "idle"
    /\ \E a \in ProtectArgs :
         LET r == Protect(a.aio, a.tfes, a.acs, a.aturn, a.tdump, a.fcond,
                          a.fcu, a.tba, a.tmax)
         IN  /\ call' = [op |-> "protect", args |-> a]
             /\ pc' = IF r.exc = "none" THEN "returned" ELSE "raised"
             /\ ret' = IF r.exc = "none"
                       THEN [op |-> "protect", ajwpro |-> r.ajwpro,
                             vd |-> r.vd]
                       ELSE NoRet
             /\ exc' = IF r.exc = "none" THEN NoExc
                       ELSE [type |-> r.exc,
                             message |-> "tuple index out of range",
                             args |-> << >>]
             /\ lookup' = [calls |-> 1, n_o |-> r.n_o, n_p |-> r.n_p]
             /\ UNCHANGED <<store, diags, logs, newton, cond_frac, solver>>

NextProtect == CallProtect \/ NextEvaluation

SpecProtect == Init /\ [][NextProtect]_vars

ProtectCalled == pc # "idle" /\ call.op = "protect"

\* C7: the two table positions protect uses are within 1..11 for every
\* pair (max_temp, helium_temp).
TablePositionsClamped ==
    lookup.calls = 1
    => /\ lookup.n_o \in 1 .. 11
       /\ lookup.n_p \in 1 .. 11

\* the inputs protect is specified for: positive current, energy, dump
\* time and turn area, fractions within [0, 1]
ProtectInputsValid(a) ==
    /\ a.aio > 0 /\ a.tfes > 0 /\ a.tdump > 0 /\ a.aturn > 0
    /\ a.fcond \in 0 .. 100 /\ a.fcu \in 0 .. 100

\* C18: for valid inputs and any helium and maximum temperature, protect
\* returns its pair of results and raises nothing.
ProtectNeverRaises ==
    (ProtectCalled /\ ProtectInputsValid(call.args))
    => /\ pc = "returned"
       /\ exc = NoExc
       /\ DOMAIN ret = {"op", "ajwpro", "vd"}

\* C8: protect returns dump_voltage = 2 * stored_energy / (dump_time *
\* operating_current); doubling the dump time or the operating current
\* halves it, and no area, fraction or temperature argument changes it.
DumpVoltageLaw ==
    (ProtectCalled /\ pc = "returned")
    => LET a == call.args
           P(b) == Protect(b.aio, b.tfes, b.acs, b.aturn, b.tdump, b.fcond,
                           b.fcu, b.tba, b.tmax)
       IN  /\ ret.vd[1] * (a.tdump * a.aio) = ret.vd[2] * (2 * a.tfes)
           /\ 2 * P([a EXCEPT !.tdump = 2 * a.tdump]).vd[1] * ret.vd[2]
                = ret.vd[1] * P([a EXCEPT !.tdump = 2 * a.tdump]).vd[2]
           /\ 2 * P([a EXCEPT !.aio = 2 * a.aio]).vd[1] * ret.vd[2]
                = ret.vd[1] * P([a EXCEPT !.aio = 2 * a.aio]).vd[2]
           /\ \A b \in ProtectArgs :
                (b.aio = a.aio /\ b.tfes = a.tfes /\ b.tdump = a.tdump)
                => P(b).vd = ret.vd

DumpVoltageWitness ==
    /\ ProtectCalled
    /\ pc = "returned"
    /\ call.args.tdump = 10
    /\ call.args.aio = 8000
    /\ call.args.tfes = 90
    /\ ret.vd = <<9, 4000>>

---------------------------------------------------------------------------
(* Floating point arithmetic of the quench-stress model, on a fixed-point  *)
(* grid, with the non-finite values of IEEE arithmetic and Python's        *)
(* ZeroDivisionError carried as values that every operation propagates.    *)

\* 1.0 on the fixed-point grid
SC == 10000

PosInf == 2000000001
NegInf == -2000000001

\* a ZeroDivisionError raised by a division of Python floats
ZeroDivision == 2000000003

\* np.pi and its multiples, log(2)
Pi == 31416
HalfPi == 15708
TwoPi == 62832
Ln2 == 6931

\* constants.rmu0, in micro-henry per metre
Rmu0 == 12566

IsNum(x) == x > NegInf /\ x < PosInf

Special(a, b) == a = ZeroDivision \/ b = ZeroDivision \/ a = NaN \/ b = NaN

FirstSpecial(a, b) ==
    IF a = ZeroDivision \/ b = ZeroDivision THEN ZeroDivision ELSE NaN

\* x * y and x / y of non-negative grid values, rounded to the grid
\* without leaving 32 bits on the way
MulAbs(x, y) ==
    (x \div SC) * (y \div SC) * SC + (x \div SC) * (y % SC)
      + (x % SC) * (y \div SC) + (2 * ((x % SC) * (y % SC)) + SC) \div (2 * SC)

RECURSIVE Digits(_, _, _)
Digits(r, y, n) ==
    IF n = 0 THEN (IF 2 * r >= y THEN 1 ELSE 0)
    ELSE ((10 * r) \div y) * 10 ^ (n - 1) + Digits((10 * r) % y, y, n - 1)

DivAbs(x, y) == (x \div y) * SC + Digits(x % y, y, 4)

FNeg(a) == IF a = ZeroDivision \/ a = NaN THEN a ELSE -a

FAbs(a) == IF a = ZeroDivision \/ a = NaN THEN a ELSE Abs(a)

FAdd(a, b) ==
    IF Special(a, b) THEN FirstSpecial(a, b)
    ELSE IF ~IsNum(a) THEN (IF ~IsNum(b) /\ b # a THEN NaN ELSE a)
    ELSE IF ~IsNum(b) THEN b
    ELSE a + b

FSub(a, b) == FAdd(a, FNeg(b))

FMul(a, b) ==
    IF Special(a, b) THEN FirstSpecial(a, b)
    ELSE IF ~IsNum(a) \/ ~IsNum(b)
    THEN (IF a = 0 \/ b = 0 THEN NaN
          ELSE IF Sign(a) * Sign(b) > 0 THEN PosInf ELSE NegInf)
    ELSE Sign(a) * Sign(b) * MulAbs(Abs(a), Abs(b))

\* a / b where an operand is a numpy float: x / 0 is +-inf, 0 / 0 is nan
NpDiv(a, b) ==
    IF Special(a, b) THEN FirstSpecial(a, b)
    ELSE IF ~IsNum(a)
    THEN (IF ~IsNum(b) THEN NaN
          ELSE IF Sign(a) * (IF b >= 0 THEN 1 ELSE -1) > 0 THEN PosInf
          ELSE NegInf)
    ELSE IF ~IsNum(b) THEN 0
    ELSE IF b = 0
    THEN (IF a = 0 THEN NaN ELSE IF a > 0 THEN PosInf ELSE NegInf)
    ELSE Sign(a) * Sign(b) * DivAbs(Abs(a), Abs(b))

\* a / b of two Python floats: a zero divisor raises ZeroDivisionError
PyDiv(a, b) ==
    IF a = ZeroDivision \/ b = ZeroDivision \/ b = 0 THEN ZeroDivision
    ELSE NpDiv(a, b)

\* np.exp: exp(r) for |r| <= log(2) / 2 by its series, scaled by 2 ^ k
RECURSIVE ExpHorner(_, _)
ExpHorner(r, n) ==
    IF n > 6 THEN SC
    ELSE FAdd(SC, FMul(NpDiv(r, n * SC), ExpHorner(r, n + 1)))

ExpScaled(x, k) ==
    IF k >= 0 THEN ExpHorner(x - k * Ln2, 1) * 2 ^ k
    ELSE RoundDiv(ExpHorner(x - k * Ln2, 1), 2 ^ (-k))

FExp(x) ==
    IF x = ZeroDivision \/ x = NaN \/ x = PosInf THEN x
    ELSE IF x < -12 * SC THEN 0
    ELSE IF x > 12 * SC THEN PosInf
    ELSE ExpScaled(x, RoundDiv(x, Ln2))

\* np.log: log(m * 2 ^ k) = k log(2) + 2 atanh((m - 1) / (m + 1))
AtanhSeries(u, u2) ==
    FMul(u, FAdd(SC, FMul(u2, FAdd(3333, FMul(u2, FAdd(2000,
                                                   NpDiv(u2, 7 * SC)))))))

RECURSIVE LnReduced(_, _)
LnReduced(x, k) ==
    IF x < 7071 THEN LnReduced(2 * x, k - 1)
    ELSE IF x >= 14142 THEN LnReduced(RoundDiv(x, 2), k + 1)
    ELSE k * Ln2 + 2 * AtanhSeries(NpDiv(x - SC, x + SC),
                                   FMul(NpDiv(x - SC, x + SC),
                                        NpDiv(x - SC, x + SC)))

FLn(x) ==
    IF x = ZeroDivision \/ x = NaN \/ x = PosInf THEN x
    ELSE IF x < 0 THEN NaN
    ELSE IF x = 0 THEN NegInf
    ELSE LnReduced(x, 0)

\* np.sin and np.cos: the argument is folded into [-pi / 2, pi / 2]
RECURSIVE SinHorner(_, _)
SinHorner(x2, k) ==
    IF k > 4 THEN SC
    ELSE SC - FMul(NpDiv(x2, 2 * k * (2 * k + 1) * SC), SinHorner(x2, k + 1))

SinSeries(x) == FMul(x, SinHorner(FMul(x, x), 1))

SinFolded(y) ==
    IF y = HalfPi THEN SC
    ELSE IF y = -HalfPi THEN -SC
    ELSE IF y > HalfPi THEN SinSeries(Pi - y)
    ELSE IF y < -HalfPi THEN SinSeries(-Pi - y)
    ELSE SinSeries(y)

ClampUnit(v) == IF v > SC THEN SC ELSE IF v < -SC THEN -SC ELSE v

FSin(x) ==
    IF x = ZeroDivision \/ x = NaN THEN x
    ELSE IF ~IsNum(x) THEN NaN
    ELSE ClampUnit(SinFolded(IF (x % TwoPi) > Pi THEN (x % TwoPi) - TwoPi
                             ELSE x % TwoPi))

FCos(x) ==
    IF x = ZeroDivision \/ x = NaN THEN x
    ELSE IF ~IsNum(x) THEN NaN
    ELSE FSin(x + HalfPi)

\* np.arcsin: nan outside [-1, 1], else the angle whose sine is nearest
RECURSIVE AsinBisect(_, _, _)
AsinBisect(x, lo, hi) ==
    IF hi - lo <= 1
    THEN (IF Abs(FSin(lo) - x) <= Abs(FSin(hi) - x) THEN lo ELSE hi)
    ELSE IF FSin((lo + hi) \div 2) < x
    THEN AsinBisect(x, (lo + hi) \div 2, hi)
    ELSE AsinBisect(x, lo, (lo + hi) \div 2)

FAsin(x) ==
    IF x = ZeroDivision \/ x = NaN THEN x
    ELSE IF ~IsNum(x) \/ x > SC \/ x < -SC THEN NaN
    ELSE IF x = SC THEN HalfPi
    ELSE IF x = -SC THEN -HalfPi
    ELSE AsinBisect(x, -HalfPi, HalfPi)

\* np.sqrt: nan for a negative argument
FSqrt(x) ==
    IF x = ZeroDivision \/ x = NaN \/ x = PosInf THEN x
    ELSE IF x < 0 THEN NaN
    ELSE IF x <= 20 * SC THEN ISqrt(x * SC)
    ELSE ISqrt(x) * 100

---------------------------------------------------------------------------
(* lambda_term, _theta_factor_integral, _inductance_factor and             *)
(* vv_stress_on_quench. Each step takes the record g of the values         *)
(* computed so far and hands it on with its own values added.              *)

\* the arcsine form of lambda_term
LambdaArcsin(tau, omega, p) ==
    FMul(NpDiv(SC, FSqrt(FAbs(p))),
         FAsin(NpDiv(FAdd(SC, FMul(omega, tau)), FAdd(tau, omega))))

\* the logarithmic form of lambda_term
LambdaLog(tau, omega, p) ==
    FMul(NpDiv(SC, FSqrt(FAbs(p))),
         FLn(NpDiv(FMul(2 * SC,
                        FSub(FAdd(SC, FMul(tau, omega)),
                             FSqrt(FMul(p, FSub(SC, FMul(tau, tau)))))),
                   FAdd(tau, omega))))

\* the two closed forms of lambda_term, chosen by the sign of p
LambdaForm(tau, omega, p) ==
    IF p = ZeroDivision THEN ZeroDivision
    ELSE IF p # NaN /\ p < 0 THEN LambdaArcsin(tau, omega, p)
    ELSE LambdaLog(tau, omega, p)

\* p = 1 - omega ** 2
LambdaTerm(tau, omega) == LambdaForm(tau, omega, FSub(SC, FMul(omega, omega)))

\* chi1, chi2 and the theta factor (chi1 + 2 chi2) / (2 pi)
ThetaChi(g) ==
    NpDiv(FAdd(NpDiv(FAdd(g.zc3, FAbs(FNeg(g.zc3))), g.ri_vv),
               FMul(2 * SC,
                    FAdd(FAdd(FAbs(FSub(LambdaTerm(SC, g.omega1),
                                        LambdaTerm(g.cos1, g.omega1))),
                              FAbs(FSub(LambdaTerm(g.cos1, g.omega2),
                                        LambdaTerm(g.cos12, g.omega2)))),
                         FAbs(FSub(LambdaTerm(g.cos12, g.omega3),
                                   LambdaTerm(-SC, g.omega3)))))),
          TwoPi)

\* zc3, the entries of tau and omega = rc / r
ThetaOmega(g) ==
    ThetaChi(g @@ [zc3    |-> FSub(FAdd(g.zc2, g.r2), g.r3),
                   cos12  |-> FCos(FAdd(g.theta1, FAdd(HalfPi, g.theta1))),
                   omega1 |-> NpDiv(g.rc1, g.r1),
                   omega2 |-> NpDiv(g.rc2, g.r2),
                   omega3 |-> NpDiv(g.rc2, g.r3)])

\* rc2 (= rc3) and zc2
ThetaCentre(g) ==
    ThetaOmega(g @@ [rc2 |-> FAdd(g.rc1, FMul(FSub(g.r1, g.r2), g.cos1)),
                     zc2 |-> FMul(FSub(g.r1, g.r2), g.sin1)])

\* rc1 = (h / kappa) * (rbar / a + 1) - r1
ThetaCentreOne(g) ==
    ThetaCentre(g @@ [rc1 |-> FSub(FMul(PyDiv(g.h_vv, g.kappa),
                                        FAdd(PyDiv(g.rbar, g.a), SC)),
                                   g.r1)])

\* the radii r1, r2, r3 of the three arcs
ThetaRadii(g) ==
    ThetaCentreOne(
        g @@ [r1 |-> FMul(g.h_vv,
                          NpDiv(FAdd(g.cos1,
                                     FMul(g.iota, FSub(g.sin1, SC))),
                                g.denom)),
              r2 |-> FMul(g.h_vv,
                          NpDiv(FAdd(FSub(g.cos1, SC),
                                     FMul(g.iota, g.sin1)),
                                g.denom)),
              r3 |-> PyDiv(FMul(g.h_vv, FSub(SC, g.delta)), g.kappa)])

\* iota = (1 + delta) / kappa, denom = cos + sin - 1
ThetaDenom(g) ==
    ThetaRadii(g @@ [iota  |-> PyDiv(FAdd(SC, g.delta), g.kappa),
                     denom |-> FSub(FAdd(g.cos1, g.sin1), SC)])

\* delta = (rbar - rm) / a, kappa = h / a
ThetaShape(g) ==
    ThetaDenom(g @@ [delta |-> PyDiv(FSub(g.rbar, g.rm_vv), g.a),
                     kappa |-> PyDiv(g.h_vv, g.a),
                     cos1  |-> FCos(g.theta1),
                     sin1  |-> FSin(g.theta1)])

\* _theta_factor_integral, theta1_vv in radians
ThetaFactorIntegral(ro_vv, ri_vv, rm_vv, h_vv, theta1_vv) ==
    ThetaShape([ri_vv |-> ri_vv, rm_vv |-> rm_vv, h_vv |-> h_vv,
                theta1 |-> theta1_vv,
                a    |-> PyDiv(FSub(ro_vv, ri_vv), 2 * SC),
                rbar |-> PyDiv(FAdd(ro_vv, ri_vv), 2 * SC)])

\* the surrogate of _inductance_factor
InductanceSurrogate(aspect_ratio, triangularity, elongation, theta1) ==
    FSub(FAdd(FSub(FAdd(FAdd(49330, FMul(373, elongation)),
                        FMul(698, triangularity)),
                   FMul(35510, aspect_ratio)),
              FMul(7629, FMul(aspect_ratio, aspect_ratio))),
         FMul(630, PyDiv(theta1, 90 * SC)))

\* _inductance_factor, theta1 in degrees
InductanceFactor(H, ri, ro, rm, theta1) ==
    InductanceSurrogate(
        PyDiv(PyDiv(FAdd(ro, ri), 2 * SC), PyDiv(FSub(ro, ri), 2 * SC)),
        PyDiv(FSub(PyDiv(FAdd(ro, ri), 2 * SC), rm),
              PyDiv(FSub(ro, ri), 2 * SC)),
        PyDiv(H, PyDiv(FSub(ro, ri), 2 * SC)),
        theta1)

\* (constants.rmu0 / np.pi) * H * _inductance_factor(...)
SelfInductance(H, ri, ro, rm, theta1) ==
    FMul(FMul(NpDiv(Rmu0, Pi), H), InductanceFactor(H, ri, ro, rm, theta1))

\* plr_coil = 0.5 * ccl_length_coil / (n_tf_coils * (s_cc + s_rp))
PlrCoil(a) ==
    PyDiv(FMul(5000, a.ccl_length_coil),
          FMul(a.n_tf_coils, FAdd(a.s_cc, a.s_rp)))

\* a vessel resistance that does not fall with the shell thickness
PlrVvNoThickness(d_vv, theta_vv) == FMul(8400, theta_vv)

\* plr_vv = (0.84 / d_vv) * theta_vv
PlrVv(d_vv, theta_vv) == FMul(PyDiv(8400, d_vv), theta_vv)

\* lambda0 = 1 / taud
Lambda0(a) == PyDiv(SC, a.taud)

\* lambda1 = plr_coil / coil_structure_self_inductance
Lambda1(a) ==
    NpDiv(PlrCoil(a),
          SelfInductance(a.H_coil, a.ri_coil, a.ro_coil, a.rm_coil,
                         a.theta1_coil))

\* b_vvi, j_vvi, zeta and the stress zeta * b_vvi * j_vvi * ri_vv
VvTresca(g) ==
    g @@ [stress |->
            FMul(FMul(FMul(
                FAdd(SC, NpDiv(FMul(FSub(g.a_vv, SC),
                                    FLn(NpDiv(FAdd(g.a_vv, SC),
                                              FSub(g.a_vv, SC)))),
                               FMul(2 * SC, g.a_vv))),
                NpDiv(FMul(Rmu0,
                           FAdd(FAdd(FMul(FMul(g.n_tf_coils,
                                               g.n_tf_coil_turns), g.i0),
                                     g.i1),
                                NpDiv(g.i2, 2 * SC))),
                      FMul(TwoPi, g.ri_vv))),
                NpDiv(g.i2, FMul(FMul(TwoPi, g.d_vv), g.ri_vv))),
                g.ri_vv)]

\* i2 = (lambda1 / lambda2) * i1 and a_vv
VvInduced(g) ==
    VvTresca(g @@ [i2   |-> FMul(NpDiv(g.lambda1, g.lambda2), g.i1),
                   a_vv |-> PyDiv(FAdd(g.ro_vv, g.ri_vv),
                                  FSub(g.ro_vv, g.ri_vv))])

\* i0 and i1 at the time of the maximum force
VvCurrents(g) ==
    VvInduced(
        g @@ [i0 |-> FMul(g.i_op, FExp(FMul(FNeg(g.lambda0), g.tmaxforce))),
              i1 |-> FMul(FMul(FMul(FMul(g.lambda0, g.n_tf_coils),
                                    g.n_tf_coil_turns), g.i_op),
                          NpDiv(FSub(FExp(FMul(FNeg(g.lambda1),
                                               g.tmaxforce)),
                                     FExp(FMul(FNeg(g.lambda0),
                                               g.tmaxforce))),
                                FSub(g.lambda0, g.lambda1)))])

\* tmaxforce = log((lambda0 + lambda1) / (2 lambda0)) / (lambda1 - lambda0)
VvTime(g) ==
    VvCurrents(
        g @@ [tmaxforce |->
                NpDiv(FLn(NpDiv(FAdd(g.lambda0, g.lambda1),
                                FMul(2 * SC, g.lambda0))),
                      FSub(g.lambda1, g.lambda0))])

\* the decay constants of the three loops
VvDecay(g) ==
    VvTime(g @@ [lambda0 |-> Lambda0(g),
                 lambda1 |-> Lambda1(g),
                 lambda2 |-> NpDiv(PlrVv(g.d_vv, g.theta_vv),
                                   SelfInductance(g.H_vv, g.ri_vv, g.ro_vv,
                                                  g.rm_vv, g.theta1_vv))])

\* vv_stress_on_quench: the values it computes, the stress among them
VvStressOnQuench(a) ==
    VvDecay(a @@ [theta_vv |->
                    ThetaFactorIntegral(a.ro_vv, a.ri_vv, a.rm_vv, a.H_vv,
                                        FMul(Pi, PyDiv(a.theta1_vv,
                                                       180 * SC)))])

\* Largest shell thickness drawn, in units of 0.06 m
MaxShell == 3

ShellThicknesses == {600 * k : k \in 1 .. MaxShell}

\* an ITER-like coil and vessel; the first current-centre-line length with
\* the first dump time makes lambda1 equal lambda0
VvArgs ==
    [H_coil : {90000}, ri_coil : {35000}, ro_coil : {150000},
     rm_coil : {70000}, ccl_length_coil : {394600, 500000},
     theta1_coil : {500000}, H_vv : {75000}, ri_vv : {45000},
     ro_vv : {135000}, rm_vv : {75000}, theta1_vv : {300000, 450000, 600000},
     n_tf_coils : {160000}, n_tf_coil_turns : {2000000}, s_rp : {5000},
     s_cc : {6000}, taud : {40000, 200000}, i_op : {400, 700, 900},
     d_vv : ShellThicknesses]

\* one ITER-like coil and vessel
VvPoint ==
    [H_coil |-> 90000, ri_coil |-> 35000, ro_coil |-> 150000,
     rm_coil |-> 70000, ccl_length_coil |-> 500000, theta1_coil |-> 500000,
     H_vv |-> 75000, ri_vv |-> 45000, ro_vv |-> 135000, rm_vv |-> 75000,
     theta1_vv |-> 300000, n_tf_coils |-> 160000,
     n_tf_coil_turns |-> 2000000, s_rp |-> 5000, s_cc |-> 6000,
     taud |-> 200000, i_op |-> 700, d_vv |-> 600]

\* calls with an undefined intermediate: a vessel of no width, a shell of no
\* thickness, no structure area, a coil of no height (its self-inductance
\* is zero), a negative inboard vessel radius, a negative case area
SingularArgs ==
    {[VvPoint EXCEPT !.ro_vv = 45000],
     [VvPoint EXCEPT !.d_vv = 0],
     [VvPoint EXCEPT !.s_cc = 0, !.s_rp = 0],
     [VvPoint EXCEPT !.H_coil = 0],
     [VvPoint EXCEPT !.ri_vv = -45000],
     [VvPoint EXCEPT !.s_cc = -16000, !.taud = 20000]}

\* the current-centre-lines of the coil and of the vessel coincide
CoincidentArgs ==
    {[VvPoint EXCEPT !.H_vv = 90000, !.ri_vv = 35000, !.ro_vv = 150000,
                     !.rm_vv = m, !.theta1_vv = t, !.taud = d,
                     !.ccl_length_coil = l] :
        m \in {70000, 75000}, t \in {300000, 500000},
        d \in {40000, 200000}, l \in {394600, 500000}}

\* one call of vv_stress_on_quench with arguments drawn from args, from its
\* entry to its return or raise
VvCall(args) ==
    /\ pc = "idle"
    /\ \E a \in args :
         \E r \in {VvStressOnQuench(a)} :
             /\ call' = [op |-> "vv_stress_on_quench", args |-> a]
             /\ pc' = IF r.stress = ZeroDivision THEN "raised" ELSE "returned"
             /\ ret' = IF r.stress = ZeroDivision THEN NoRet
                       ELSE [op |-> "vv_stress_on_quench",
                             stress |-> r.stress]
             /\ exc' = IF r.stress = ZeroDivision
                       THEN [type |-> "ZeroDivisionError",
                             message |-> "float division by zero",
                             args |-> << >>]
                       ELSE NoExc
             /\ UNCHANGED <<store, diags, logs, newton, lookup, cond_frac,
                           solver>>

\* a call at one of the ITER-like design points
CallVvStress == VvCall(VvArgs)

NextVv == CallVvStress \/ NextEvaluation

SpecVv == Init /\ [][NextVv]_vars

\* a call at any point, the singular and the coincident ones included
CallVvStressAny == VvCall(VvArgs \cup SingularArgs \cup CoincidentArgs)

NextVvAny == CallVvStressAny \/ NextEvaluation

SpecVvAny == Init /\ [][NextVvAny]_vars

VvCalled == pc # "idle" /\ call.op = "vv_stress_on_quench"

\* C6: when lambda1 = lambda0 the call of vv_stress_on_quench ends with
\* an error, and no call returns inf or nan as the stress.
QuenchSingularityRaises ==
    /\ (VvCalled /\ Lambda1(call.args) = Lambda0(call.args))
         => pc = "raised"
    /\ (VvCalled /\ pc = "returned") => IsNum(ret.stress)

\* the stress of the same call with the shell thickness d
StressAtThickness(d) ==
    VvStressOnQuench([call.args EXCEPT !.d_vv = d]).stress

VvUndefined(a) ==
    \/ a.ro_vv = a.ri_vv
    \/ a.d_vv = 0
    \/ a.s_cc + a.s_rp = 0
    \/ SelfInductance(a.H_coil, a.ri_coil, a.ro_coil, a.rm_coil,
                      a.theta1_coil) = 0
    \/ SelfInductance(a.H_vv, a.ri_vv, a.ro_vv, a.rm_vv, a.theta1_vv) = 0
    \/ VvStressOnQuench(a).lambda2 = 0
    \/ a.ri_vv <= 0
    \/ a.ro_vv <= 0

\* C16: vv_stress_on_quench never returns a non-finite stress; a call with
\* an undefined intermediate (a zero denominator, a logarithm of a
\* non-positive number) ends with an error.
QuenchFailsHard ==
    /\ (VvCalled /\ VvUndefined(call.args)) => pc = "raised"
    /\ (VvCalled /\ VvUndefined(call.args) /\ pc = "returned")
         => IsNum(ret.stress)

\* the current-centre-lines of a sixteen-coil machine coincide and every
\* other argument is positive
Coincident(a) ==
    /\ a.n_tf_coils = 16 * SC
    /\ a.H_coil = a.H_vv
    /\ a.ri_coil = a.ri_vv
    /\ a.ro_coil = a.ro_vv
    /\ \A k \in DOMAIN a : a[k] > 0

\* C17: with coincident current-centre-lines the call divides by zero
\* nowhere and returns a finite stress that is not negative.
CoincidentStressFinite ==
    (VvCalled /\ Coincident(call.args))
    => /\ pc = "returned"
       /\ IsNum(ret.stress)
       /\ ret.stress >= 0

\* a finite value above zero
Positive(x) == IsNum(x) /\ x > 0

\* C20: in every call that returns a stress the two loop resistances and
\* the two self-inductances are strictly positive, and so are lambda1 and
\* lambda2.
LoopsStrictlyPositive ==
    (VvCalled /\ pc = "returned" /\ IsNum(ret.stress))
    => /\ Positive(PlrCoil(call.args))
       /\ Positive(PlrVv(call.args.d_vv,
                         VvStressOnQuench(call.args).theta_vv))
       /\ Positive(SelfInductance(call.args.H_coil, call.args.ri_coil,
                                  call.args.ro_coil, call.args.rm_coil,
                                  call.args.theta1_coil))
       /\ Positive(SelfInductance(call.args.H_vv, call.args.ri_vv,
                                  call.args.ro_vv, call.args.rm_vv,
                                  call.args.theta1_vv))
       /\ Positive(VvStressOnQuench(call.args).lambda1)
       /\ Positive(VvStressOnQuench(call.args).lambda2)

---------------------------------------------------------------------------
(* lambda_term called on its own                                           *)

\* Largest |omega| drawn, in units of 0.25
MaxOmega == 12

\* tau as _theta_factor_integral hands it in: a cosine or +-1
LambdaTaus == {-SC, -5000, 0, 5000, 8660, SC}

\* omega on both sides of the branch boundary and on it
LambdaOmegas == {2500 * k : k \in -MaxOmega .. MaxOmega}

\* one call of lambda_term
CallLambdaTerm ==
    /\ pc = "idle"
    /\ \E t \in LambdaTaus, w \in LambdaOmegas :
         /\ call' = [op |-> "lambda_term", args |-> [tau |-> t, omega |-> w]]
         /\ pc' = "returned"
         /\ ret' = [op |-> "lambda_term", integral |-> LambdaTerm(t, w)]
         /\ exc' = NoExc
         /\ UNCHANGED <<store, diags, logs, newton, lookup, cond_frac,
                        solver>>

NextLambda == CallLambdaTerm \/ NextEvaluation

SpecLambda == Init /\ [][NextLambda]_vars

LambdaCalled == pc = "returned" /\ call.op = "lambda_term"

\* p = 1 - omega ** 2 of the last call
LambdaP == SC - FMul(call.args.omega, call.args.omega)

\* C23: lambda_term takes the arcsine form exactly when 1 - omega^2 < 0 and
\* the logarithmic form exactly when 1 - omega^2 > 0, and at omega^2 = 1 it
\* still gives a finite value.
LambdaBranchBySign ==
    LambdaCalled
    => /\ LambdaP < 0
            => ret.integral = LambdaArcsin(call.args.tau, call.args.omega,
                                           LambdaP)
       /\ LambdaP > 0
            => ret.integral = LambdaLog(call.args.tau, call.args.omega,
                                        LambdaP)
       /\ LambdaP = 0 => IsNum(ret.integral)

---------------------------------------------------------------------------
(* sc_tf_internal_geom: tf_wp_geom, tf_case_geom, tf_wp_currents and the   *)
(* turn geometry. Lengths in 0.1 mm, areas in mm2, currents in A, current  *)
(* densities in A/mm2, numbers of turns in 0.1 turn, tan_theta_coil and    *)
(* the fractions in 1e-4. Each step takes the record g of the module       *)
(* variables, with the codes reported so far in g.diags, and hands on the  *)
(* record as it leaves it.                                                 *)

\* the product of two lengths, as an area
GeomArea(x, y) == RoundDiv(x * y, 100)

\* np.sqrt of an area, as a length
SqrtArea(area) == IF area < 0 THEN NaN ELSE ISqrt(area * 100)

\* (4 - pi) * rbcndut ** 2: what the four rounded corners take away
CornerArea(rbcndut) == RoundDiv(8584 * rbcndut * rbcndut, 1000000)

\* error_handling.report_error(code): the code is recorded and the caller
\* goes on with its next statement
ReportError(g, code) == [diags |-> g.diags \cup {code}] @@ g

\* 2 * (tinstf + tfinsgap)
GroundWall(g) == 2 * (g.tinstf + g.tfinsgap)

\* r_wp_inner, r_wp_outer, r_wp_centre and t_wp_toroidal
TfWpRadii(g) ==
    [r_wp_inner    |-> g.r_tf_inboard_in + g.dr_tf_nose_case,
     r_wp_outer    |-> g.r_tf_inboard_in + g.dr_tf_nose_case + g.dr_tf_wp,
     r_wp_centre   |-> g.r_tf_inboard_in + g.dr_tf_nose_case
                         + RoundDiv(g.dr_tf_wp, 2),
     t_wp_toroidal |-> 2 * FMul(g.r_tf_inboard_in + g.dr_tf_nose_case,
                                g.tan_theta_coil)
                         - 2 * g.dx_tf_side_case] @@ g

\* wwp1, wwp2 and t_wp_toroidal_av of the three winding pack shapes
TfWpWidths(g) ==
    CASE g.i_tf_wp_geom = 0 ->
           [wwp1 |-> g.t_wp_toroidal,
            t_wp_toroidal_av |-> g.t_wp_toroidal] @@ g
      [] g.i_tf_wp_geom = 1 ->
           [wwp1 |-> 2 * (FMul(g.r_wp_centre, g.tan_theta_coil)
                            - g.dx_tf_side_case),
            wwp2 |-> 2 * (FMul(g.r_wp_inner, g.tan_theta_coil)
                            - g.dx_tf_side_case),
            t_wp_toroidal_av |->
                FMul(g.r_wp_centre, g.tan_theta_coil)
                  + FMul(g.r_wp_inner, g.tan_theta_coil)
                  - 2 * g.dx_tf_side_case] @@ g
      [] OTHER ->
           [wwp1 |-> 2 * (FMul(g.r_wp_outer, g.tan_theta_coil)
                            - g.dx_tf_side_case),
            wwp2 |-> 2 * (FMul(g.r_wp_inner, g.tan_theta_coil)
                            - g.dx_tf_side_case),
            t_wp_toroidal_av |->
                FMul(g.r_wp_outer, g.tan_theta_coil)
                  + FMul(g.r_wp_inner, g.tan_theta_coil)
                  - 2 * g.dx_tf_side_case] @@ g

\* awpc, awptf and a_ground_ins: in each shape the radial thickness times
\* the mean toroidal thickness, each less the layers around the pack
TfWpAreas(g) ==
    [awpc  |-> GeomArea(g.dr_tf_wp, g.t_wp_toroidal_av),
     awptf |-> GeomArea(g.dr_tf_wp - GroundWall(g),
                        g.t_wp_toroidal_av - GroundWall(g)),
     a_ground_ins |->
         GeomArea(g.dr_tf_wp - 2 * g.tfinsgap,
                  g.t_wp_toroidal_av - 2 * g.tfinsgap)
           - GeomArea(g.dr_tf_wp - GroundWall(g),
                      g.t_wp_toroidal_av - GroundWall(g))] @@ g

\* the negative winding pack area report, the last statement of tf_wp_geom
TfWpReport(g) ==
    IF g.awptf <= 0 \/ g.awpc <= 0 THEN ReportError(g, 99) ELSE g

TfWpGeom(g) == TfWpReport(TfWpAreas(TfWpWidths(TfWpRadii(g))))

\* acasetf, acasetfo, a_case_front and a_case_nose
TfCaseAreas(g) ==
    [acasetf  |-> RoundDiv(g.a_tf_coil_inboard, g.n_tf_coils) - g.awpc,
     acasetfo |-> g.a_tf_leg_outboard - g.awpc,
     a_case_front |->
         IF g.i_tf_case_geom = 0
         THEN FMul(GeomArea(g.r_tf_inboard_out, g.r_tf_inboard_out),
                   g.rad_tf_coil_toroidal)
                - FMul(GeomArea(g.r_wp_outer, g.r_wp_outer),
                       g.tan_theta_coil)
         ELSE FMul(GeomArea(g.r_wp_outer + g.dr_tf_plasma_case,
                            g.r_wp_outer + g.dr_tf_plasma_case)
                     - GeomArea(g.r_wp_outer, g.r_wp_outer),
                   g.tan_theta_coil),
     a_case_nose |->
         FMul(GeomArea(g.r_wp_inner, g.r_wp_inner), g.tan_theta_coil)
           - FMul(GeomArea(g.r_tf_inboard_in, g.r_tf_inboard_in),
                  g.rad_tf_coil_toroidal)] @@ g

\* the negative casing area report
TfCaseReport(g) ==
    IF g.acasetf <= 0 \/ g.acasetfo <= 0 THEN ReportError(g, 99) ELSE g

\* t_lat_case_av, written after the report
TfCaseLateral(g) ==
    [t_lat_case_av |->
         CASE g.i_tf_wp_geom = 0 ->
                g.dx_tf_side_case
                  + RoundDiv(FMul(g.dr_tf_wp, g.tan_theta_coil), 2)
           [] g.i_tf_wp_geom = 1 ->
                g.dx_tf_side_case
                  + RoundDiv(FMul(g.dr_tf_wp, g.tan_theta_coil), 4)
           [] OTHER -> g.dx_tf_side_case] @@ g

TfCaseGeom(g) == TfCaseLateral(TfCaseReport(TfCaseAreas(g)))

\* the floor max(1.0, ...) of tf_wp_currents puts under j_tf_wp: 1 A/m2 lies
\* below the grid, whose smallest positive value stands for it
JtfWpFloor == 1

\* j_tf_wp = max(1.0, c_tf_total / (n_tf_coils * awptf))
TfWpCurrents(g) ==
    [j_tf_wp |->
         IF g.awptf = 0 THEN PosInf
         ELSE IF RoundDiv(RoundDiv(g.c_tf_total, g.n_tf_coils), g.awptf)
                   > JtfWpFloor
         THEN RoundDiv(RoundDiv(g.c_tf_total, g.n_tf_coils), g.awptf)
         ELSE JtfWpFloor] @@ g

\* 2 * dx_tf_turn_insulation + 2 * dx_tf_turn_steel
TurnWall(g) == 2 * g.dx_tf_turn_insulation + 2 * g.dx_tf_turn_steel

\* tf_integer_turn_geom: rbcndut, dr_tf_turn and its report
IntegerTurnRadial(g) ==
    (IF RoundDiv(g.dr_tf_wp - GroundWall(g), g.n_layer) <= TurnWall(g)
     THEN [diags |-> g.diags \cup {100}] ELSE [diags |-> g.diags])
    @@ [rbcndut    |-> RoundDiv(3 * g.dx_tf_turn_steel, 4),
        dr_tf_turn |-> RoundDiv(g.dr_tf_wp - GroundWall(g), g.n_layer)] @@ g

\* dx_tf_turn and its report
IntegerTurnToroidal(g) ==
    (IF RoundDiv(g.t_wp_toroidal - GroundWall(g), g.n_pancake) <= TurnWall(g)
     THEN [diags |-> g.diags \cup {100}] ELSE [diags |-> g.diags])
    @@ [dx_tf_turn |-> RoundDiv(g.t_wp_toroidal - GroundWall(g),
                                g.n_pancake)] @@ g

\* t_turn_tf, the number of turns, the current per turn and the conductor
IntegerTurnConductor(g) ==
    [t_turn_tf |-> SqrtArea(GeomArea(g.dr_tf_turn, g.dx_tf_turn)),
     n_tf_coil_turns |-> 10 * g.n_layer * g.n_pancake,
     c_tf_turn |-> RoundDiv(g.c_tf_coil, g.n_layer * g.n_pancake),
     t_conductor_radial |-> g.dr_tf_turn - 2 * g.dx_tf_turn_insulation,
     t_conductor_toroidal |-> g.dx_tf_turn - 2 * g.dx_tf_turn_insulation,
     t_conductor |->
         SqrtArea(GeomArea(g.dr_tf_turn - 2 * g.dx_tf_turn_insulation,
                           g.dx_tf_turn - 2 * g.dx_tf_turn_insulation))]
    @@ g

\* the cable space inside the conduit and its area with rounded corners
IntegerTurnCable(g) ==
    [dr_tf_turn_cable_space |->
         g.t_conductor_radial - 2 * g.dx_tf_turn_steel,
     dx_tf_turn_cable_space |->
         g.t_conductor_toroidal - 2 * g.dx_tf_turn_steel,
     t_cable |->
         SqrtArea(GeomArea(g.t_conductor_radial - 2 * g.dx_tf_turn_steel,
                           g.t_conductor_toroidal - 2 * g.dx_tf_turn_steel)),
     a_tf_turn_cable_space |->
         GeomArea(g.t_conductor_radial - 2 * g.dx_tf_turn_steel,
                  g.t_conductor_toroidal - 2 * g.dx_tf_turn_steel)
           - CornerArea(g.rbcndut)] @@ g

\* dr_tf_turn_cable_space < 0 or dx_tf_turn_cable_space < 0
IntegerTurnHasNegative(g) ==
    g.dr_tf_turn_cable_space < 0 \/ g.dx_tf_turn_cable_space < 0

\* the non-positive cable space: 101 when a dimension is negative, else
\* 102 with the corners taken square
IntegerTurnFallback(g) ==
    IF g.a_tf_turn_cable_space > 0 THEN g
    ELSE IF IntegerTurnHasNegative(g) THEN ReportError(g, 101)
    ELSE [rbcndut |-> 0,
          a_tf_turn_cable_space |->
              GeomArea(g.dr_tf_turn_cable_space, g.dx_tf_turn_cable_space)]
         @@ ReportError(g, 102)

\* a_tf_turn_steel and a_tf_turn_insulation
IntegerTurnJacket(g) ==
    [a_tf_turn_steel |->
         GeomArea(g.t_conductor_radial, g.t_conductor_toroidal)
           - g.a_tf_turn_cable_space,
     a_tf_turn_insulation |->
         GeomArea(g.dr_tf_turn, g.dx_tf_turn)
           - GeomArea(g.t_conductor_radial, g.t_conductor_toroidal)] @@ g

\* tf_integer_turn_geom, with its returned values stored by its caller
TfIntegerTurnGeom(g) ==
    IntegerTurnJacket(IntegerTurnFallback(IntegerTurnCable(
        IntegerTurnConductor(IntegerTurnToroidal(IntegerTurnRadial(g))))))

\* tf_averaged_turn_geom: the turn from the input that fixes it
AveragedTurnSize(g) ==
    CASE g.t_turn_tf_is_input ->
           [a_turn    |-> GeomArea(g.t_turn_tf, g.t_turn_tf),
            c_tf_turn |-> GeomArea(g.t_turn_tf, g.t_turn_tf) * g.j_tf_wp]
           @@ g
      [] g.t_cable_tf_is_input ->
           [t_turn_tf |-> g.t_cable_tf + TurnWall(g),
            a_turn    |-> GeomArea(g.t_cable_tf + TurnWall(g),
                                   g.t_cable_tf + TurnWall(g)),
            c_tf_turn |-> GeomArea(g.t_cable_tf + TurnWall(g),
                                   g.t_cable_tf + TurnWall(g)) * g.j_tf_wp]
           @@ g
      [] OTHER ->
           [a_turn    |-> RoundDiv(g.c_tf_turn, g.j_tf_wp),
            t_turn_tf |-> SqrtArea(RoundDiv(g.c_tf_turn, g.j_tf_wp))] @@ g

\* the square turn, t_conductor and the number of turns
AveragedTurnConductor(g) ==
    [dr_tf_turn |-> g.t_turn_tf,
     dx_tf_turn |-> g.t_turn_tf,
     t_conductor |->
         RoundDiv(ISqrt(g.layer_ins * g.layer_ins + 400 * g.a_turn)
                    - g.layer_ins, 2)
           - 2 * g.dx_tf_turn_insulation,
     n_tf_coil_turns |-> RoundDiv(10 * g.awptf, g.a_turn)] @@ g

\* a_tf_turn_insulation and t_cable
AveragedTurnInsulation(g) ==
    [a_tf_turn_insulation |->
         g.a_turn - GeomArea(g.t_conductor, g.t_conductor),
     t_cable |-> g.t_conductor - 2 * g.dx_tf_turn_steel] @@ g

\* t_conductor < 0
AveragedTurnHasNegative(g) == g.t_conductor < 0

\* i_tf_sc_mat != 6: the area with rounded corners; 101 when the test of
\* the dimension fails, else 102 with the corners taken square
AveragedTurnFallback(g) ==
    IF GeomArea(g.t_cable, g.t_cable)
         - CornerArea(RoundDiv(3 * g.dx_tf_turn_steel, 4)) > 0
    THEN [a_tf_turn_cable_space |->
              GeomArea(g.t_cable, g.t_cable)
                - CornerArea(RoundDiv(3 * g.dx_tf_turn_steel, 4))] @@ g
    ELSE IF AveragedTurnHasNegative(g)
    THEN [a_tf_turn_cable_space |->
              GeomArea(g.t_cable, g.t_cable)
                - CornerArea(RoundDiv(3 * g.dx_tf_turn_steel, 4))]
         @@ ReportError(g, 101)
    ELSE [a_tf_turn_cable_space |-> GeomArea(g.t_cable, g.t_cable)]
         @@ ReportError(g, 102)

\* the cable space of the two turn structures: for i_tf_sc_mat == 6 the
\* local a_tf_turn_cable_space keeps the copy of the module variable, as
\* the last evaluation left it
AveragedTurnCable(g) ==
    IF g.i_tf_sc_mat # 6 THEN AveragedTurnFallback(g) ELSE g

\* a_tf_turn_steel = t_conductor ** 2 - a_tf_turn_cable_space
AveragedTurnJacket(g) ==
    [a_tf_turn_steel |->
         GeomArea(g.t_conductor, g.t_conductor) - g.a_tf_turn_cable_space]
    @@ g

\* tf_averaged_turn_geom, with its returned values stored by its caller
TfAveragedTurnGeom(g) ==
    AveragedTurnJacket(AveragedTurnCable(AveragedTurnInsulation(
        AveragedTurnConductor(AveragedTurnSize(g)))))

\* the turn geometry chosen by i_tf_turns_integer
TfTurnGeom(g) ==
    IF g.i_tf_turns_integer = 0 THEN TfAveragedTurnGeom(g)
    ELSE TfIntegerTurnGeom(g)

\* a_tf_wp_coolant_channels, acond, avwp, the insulation and the steel of
\* the winding pack; vftf in %
InternalGeomAreas(g) ==
    [a_tf_wp_coolant_channels |->
         RoundDiv(RoundDiv(7854 * GeomArea(g.dia_tf_turn_coolant_channel,
                                           g.dia_tf_turn_coolant_channel),
                           10000) * g.n_tf_coil_turns, 10),
     acond |->
         RoundDiv(RoundDiv(g.a_tf_turn_cable_space * (100 - g.vftf), 100)
                    * g.n_tf_coil_turns, 10)
           - RoundDiv(RoundDiv(7854
                                 * GeomArea(g.dia_tf_turn_coolant_channel,
                                            g.dia_tf_turn_coolant_channel),
                               10000) * g.n_tf_coil_turns, 10),
     avwp |->
         RoundDiv(RoundDiv(g.a_tf_turn_cable_space * g.vftf, 100)
                    * g.n_tf_coil_turns, 10),
     a_tf_coil_wp_turn_insulation |->
         RoundDiv(g.n_tf_coil_turns * g.a_tf_turn_insulation, 10),
     aswp |-> RoundDiv(g.n_tf_coil_turns * g.a_tf_turn_steel, 10)] @@ g

\* a_tf_steel, f_tf_steel, a_tf_ins and f_tf_ins
InternalGeomFractions(g) ==
    [a_tf_steel |-> g.acasetf + g.aswp,
     f_tf_steel |-> NpDiv(g.n_tf_coils * (g.acasetf + g.aswp),
                          g.a_tf_coil_inboard),
     a_tf_ins   |-> g.a_tf_coil_wp_turn_insulation + g.a_ground_ins,
     f_tf_ins   |-> NpDiv(g.n_tf_coils
                            * (g.a_tf_coil_wp_turn_insulation
                                 + g.a_ground_ins),
                          g.a_tf_coil_inboard)] @@ g

\* the negative areas or fractions report
InternalGeomReport(g) ==
    IF \/ g.acond <= 0 \/ g.avwp <= 0
       \/ g.a_tf_coil_wp_turn_insulation <= 0 \/ g.aswp <= 0
       \/ g.a_tf_steel <= 0 \/ g.f_tf_steel <= 0
       \/ g.a_tf_ins <= 0 \/ g.f_tf_ins <= 0
    THEN ReportError(g, 276) ELSE g

\* sc_tf_internal_geom
ScTfInternalGeom(g) ==
    InternalGeomReport(InternalGeomFractions(InternalGeomAreas(
        TfTurnGeom(TfWpCurrents(TfCaseGeom(TfWpGeom(g)))))))

---------------------------------------------------------------------------
(* The calls of sc_tf_internal_geom                                        *)

\* the design point of an ITER-like inboard leg of 16 coils; the fields
\* that the two sets below vary are replaced there
GeomPoint ==
    [i_tf_wp_geom |-> 0, i_tf_case_geom |-> 0, i_tf_turns_integer |-> 0,
     r_tf_inboard_in |-> 20000, dr_tf_nose_case |-> 500, dr_tf_wp |-> 5000,
     tan_theta_coil |-> 1989, rad_tf_coil_toroidal |-> 1963,
     dx_tf_side_case |-> 500, tinstf |-> 80, tfinsgap |-> 100,
     a_tf_coil_inboard |-> 9600000, n_tf_coils |-> 16,
     a_tf_leg_outboard |-> 600000, r_tf_inboard_out |-> 30000,
     dr_tf_plasma_case |-> 600, c_tf_total |-> 160000000,
     c_tf_coil |-> 10000000, n_layer |-> 20, n_pancake |-> 10,
     dx_tf_turn_steel |-> 80, dx_tf_turn_insulation |-> 20,
     i_tf_sc_mat |-> 1, t_turn_tf_is_input |-> TRUE,
     t_cable_tf_is_input |-> FALSE, t_turn_tf |-> 600, t_cable_tf |-> 400,
     c_tf_turn |-> 40000, layer_ins |-> 0,
     dia_tf_turn_coolant_channel |-> 50, vftf |-> 30]

\* Largest number of radial turn layers drawn: 20 layers leave a cable
\* space, 23 leave one smaller than its rounded corners, 30 leave none
MaxLayer == 30

\* radial winding pack thicknesses: thinner than the ground wall, and wide
WpThicknesses == {50, 5000}

\* inboard leg areas: smaller than the 16 winding packs, and larger
InboardAreas == {4000000, 9600000}

\* design points with an integer number of turns
IntegerGeomArgs ==
    {[GeomPoint EXCEPT !.i_tf_turns_integer = 1, !.i_tf_wp_geom = w,
                       !.i_tf_case_geom = c, !.dr_tf_wp = d,
                       !.a_tf_coil_inboard = ai, !.n_layer = n] :
        w \in 0 .. 2, c \in 0 .. 1, d \in WpThicknesses, ai \in InboardAreas,
        n \in {20, 23, MaxLayer}}

\* design points with an averaged turn: the turn size given (either size),
\* the cable size given, the current per turn given
AveragedGeomArgs ==
    {[GeomPoint EXCEPT !.i_tf_wp_geom = w, !.dr_tf_wp = d,
                       !.i_tf_sc_mat = m, !.t_turn_tf_is_input = i[1],
                       !.t_cable_tf_is_input = i[2], !.t_turn_tf = i[3]] :
        w \in 0 .. 2, d \in WpThicknesses, m \in {1, 6},
        i \in {<<TRUE, FALSE, 180>>, <<TRUE, TRUE, 600>>,
               <<FALSE, TRUE, 600>>, <<FALSE, FALSE, 600>>}}

GeomArgs == IntegerGeomArgs \cup AveragedGeomArgs

\* the areas the turn geometry returned to sc_tf_internal_geom
TurnAreas(g) ==
    [op |-> "sc_tf_internal_geom",
     a_tf_turn_cable_space |-> g.a_tf_turn_cable_space,
     a_tf_turn_steel |-> g.a_tf_turn_steel,
     a_tf_turn_insulation |-> g.a_tf_turn_insulation,
     n_tf_coil_turns |-> g.n_tf_coil_turns,
     diags |-> g.diags]

\* sc_tf_internal_geom run on the design point a over the module variables
\* st as the last evaluation left them
InternalGeom(a, st) == ScTfInternalGeom(a @@ st @@ [diags |-> {}])

\* one run of sc_tf_internal_geom, from its entry to its return
InternalGeomStep(a, after) ==
    \E g \in {InternalGeom(a, store)} :
        /\ call' = [op |-> "sc_tf_internal_geom", args |-> a]
        /\ pc' = after
        /\ ret' = TurnAreas(g)
        /\ exc' = NoExc
        /\ store' = [f \in DOMAIN store |-> g[f]]
        /\ diags' = g.diags
        /\ UNCHANGED <<logs, newton, lookup, cond_frac, solver>>

CallInternalGeom ==
    /\ pc = "idle"
    /\ \E a \in GeomArgs : InternalGeomStep(a, "returned")

NextGeom == CallInternalGeom \/ NextEvaluation

SpecGeom == Init /\ [][NextGeom]_vars

GeomCalled == pc = "returned" /\ call.op = "sc_tf_internal_geom"

\* C13: a non-positive winding pack area (awptf, awpc), case area (acasetf,
\* acasetfo) or a cable space area that the square-corner fallback cannot
\* recover (report 101) ends the geometry with a raised error, and no
\* module variable is written after the condition is detected.
NonPositiveAreaAborts ==
    (/\ pc # "idle"
     /\ call.op = "sc_tf_internal_geom"
     /\ \/ store.awptf <= 0 \/ store.awpc <= 0
        \/ store.acasetf <= 0 \/ store.acasetfo <= 0
        \/ 101 \in diags)
    => /\ pc = "raised"
       /\ exc.type # "none"

\* the cable space area with rounded corners that the last call computed
\* before any substitution, and the test of its dimensions
RoundedCableArea ==
    IF call.args.i_tf_turns_integer = 0
    THEN GeomArea(store.t_cable, store.t_cable)
           - CornerArea(RoundDiv(3 * call.args.dx_tf_turn_steel, 4))
    ELSE GeomArea(store.dr_tf_turn_cable_space, store.dx_tf_turn_cable_space)
           - CornerArea(RoundDiv(3 * call.args.dx_tf_turn_steel, 4))

CableDimensionNegative ==
    IF call.args.i_tf_turns_integer = 0 THEN store.t_cable < 0
    ELSE store.dr_tf_turn_cable_space < 0
           \/ store.dx_tf_turn_cable_space < 0

CableDimensionProduct ==
    IF call.args.i_tf_turns_integer = 0
    THEN GeomArea(store.t_cable, store.t_cable)
    ELSE GeomArea(store.dr_tf_turn_cable_space, store.dx_tf_turn_cable_space)

\* C14: in tf_integer_turn_geom and in tf_averaged_turn_geom (ITER-like
\* turn) report 102 is made, and the area replaced by the product of the
\* cable space dimensions with the corner radius 0, exactly when the area
\* with rounded corners is <= 0 and no cable space dimension is negative;
\* with a negative dimension the area is left as computed.
FallbackExactlyWhenRecoverable ==
    (/\ GeomCalled
     /\ call.args.i_tf_turns_integer = 1 \/ call.args.i_tf_sc_mat # 6)
    => /\ 102 \in diags
            <=> (RoundedCableArea <= 0 /\ ~CableDimensionNegative)
       /\ 102 \in diags
            => /\ store.a_tf_turn_cable_space = CableDimensionProduct
               /\ store.a_tf_turn_cable_space >= 0
               /\ call.args.i_tf_turns_integer = 1 => store.rbcndut = 0
       /\ (RoundedCableArea <= 0 /\ CableDimensionNegative)
            => store.a_tf_turn_cable_space = RoundedCableArea

---------------------------------------------------------------------------
(* One design-point evaluation as run makes it: sc_tf_internal_geom, then  *)
(* the conductor evaluation on the module variables the geometry left.     *)

\* aturn = c_tf_total / (j_tf_wp * n_tf_coils * n_tf_coil_turns)
TurnArea(a, st) ==
    RoundDiv(10 * RoundDiv(a.c_tf_total, st.j_tf_wp * a.n_tf_coils),
             st.n_tf_coil_turns)

\* tfes = e_tf_magnetic_stored_total / n_tf_coils
StoredEnergyPerCoil(a) == a.e_tf_magnetic_stored_total \div a.n_tf_coils

\* the call of supercon_croco made by run
RunSuperconCroco(a, st) ==
    SuperconCroco([aturn |-> TurnArea(a, st), bmax |-> a.bmaxtfrp,
                   iop |-> st.c_tf_turn, thelium |-> a.tftmp,
                   output |-> a.output, t_conductor |-> st.t_conductor,
                   dx_tf_turn_steel |-> a.dx_tf_turn_steel,
                   croco_thick |-> a.croco_thick],
                  st)

\* the call of supercon made by run; the coolant channel diameter is
\* handed on in mm
RunSupercon(a, st) ==
    Supercon([acs |-> st.a_tf_turn_cable_space, aturn |-> TurnArea(a, st),
              bmax |-> a.bmaxtfrp, fhe |-> a.vftf, fcu |-> a.fcutfsu,
              iop |-> st.c_tf_turn, jwp |-> st.j_tf_wp,
              isumat |-> a.i_tf_sc_mat, fhts |-> a.fhts,
              tdmptf |-> a.tdmptf, tfes |-> StoredEnergyPerCoil(a),
              thelium |-> a.tftmp,
              tmax |-> a.tmaxpro, bcritsc |-> a.bcritsc,
              tcritsc |-> a.tcritsc, output |-> a.output,
              dia_tf_turn_coolant_channel |->
                  RoundDiv(a.dia_tf_turn_coolant_channel, 10),
              i_str_wp |-> a.i_str_wp, str_tf_con_res |-> a.str_tf_con_res,
              str_wp |-> a.str_wp, bmaxtfrp |-> a.bmaxtfrp,
              b_crit_upper_nbti |-> a.b_crit_upper_nbti,
              t_crit_nbti |-> a.t_crit_nbti],
             st)

\* if i_tf_sc_mat == 6: supercon_croco, else: supercon
Conductor(a, st) ==
    IF a.i_tf_sc_mat = 6 THEN RunSuperconCroco(a, st)
    ELSE RunSupercon(a, st)

\* the product of two quotients
RatProduct(r, q) == Rat(r[1] * q[1], r[2] * q[2])

\* a dump voltage that is given for the exponential quench model only
CrocoVoltageOneModel(quench_model, tdmptf, e_total, n_tf_coils, c_tf_turn) ==
    IF quench_model = "exponential"
    THEN RatDiv(RatProduct(Rat(2, tdmptf), Rat(e_total, n_tf_coils)),
                c_tf_turn)
    ELSE <<0, 1>>

\* croco_voltage: 2 / tdmptf * (e_tf_magnetic_stored_total / n_tf_coils)
\* / c_tf_turn for the quench models "linear" and "exponential", else 0;
\* the copy of tdmptf it keeps in time2 or tau2, which nothing reads, is
\* left out
CrocoVoltage(quench_model, tdmptf, e_total, n_tf_coils, c_tf_turn) ==
    IF quench_model = "linear"
    THEN RatDiv(RatProduct(Rat(2, tdmptf), Rat(e_total, n_tf_coils)),
                c_tf_turn)
    ELSE IF quench_model = "exponential"
    THEN RatDiv(RatProduct(Rat(2, tdmptf), Rat(e_total, n_tf_coils)),
                c_tf_turn)
    ELSE <<0, 1>>

\* run after supercon_croco: nothing more when it raised, else
\* j_tf_wp_critical and tmargtf are written, croco_voltage is called and
\* vtfskv = croco_voltage() / 1e3 is written
RunAfterCroco(a, r) ==
    IF r.pc = "raised"
    THEN [out |-> r, made |-> <<"supercon_croco">>]
    ELSE [out |->
            [r EXCEPT !.store =
                [r.store EXCEPT
                    !.j_tf_wp_critical = r.ret.j_tf_wp_critical,
                    !.tmargtf = r.ret.tmarg,
                    !.vtfskv =
                        RatDiv(CrocoVoltage(a.quench_model, a.tdmptf,
                                            a.e_tf_magnetic_stored_total,
                                            a.n_tf_coils, r.store.c_tf_turn),
                               1000)]],
          made |-> <<"supercon_croco", "croco_voltage">>]

\* run after supercon: nothing more when it raised, else j_tf_wp_critical
\* and tmargtf are written, vtfskv = vdump / 1e3, and outtf is called
\* under `if output:`
RunAfterSupercon(a, r) ==
    IF r.pc = "raised"
    THEN [out |-> r, made |-> <<"supercon">>]
    ELSE [out |->
            [r EXCEPT !.store =
                [r.store EXCEPT
                    !.j_tf_wp_critical = r.ret.j_tf_wp_critical,
                    !.tmargtf = r.ret.tmarg,
                    !.vtfskv = RatDiv(r.ret.vd, 1000)]],
          made |-> IF a.output THEN <<"supercon", "outtf">>
                   ELSE <<"supercon">>]

\* a dispatch that sends every material to supercon_croco
RunConductorCroco(a, st) == RunAfterCroco(a, RunSuperconCroco(a, st))

\* the conductor step of run, lines 354-395
RunConductor(a, st) ==
    IF a.i_tf_sc_mat = 6 THEN RunAfterCroco(a, Conductor(a, st))
    ELSE RunAfterSupercon(a, Conductor(a, st))

\* the quench models drawn; "" stands for any other string
QuenchModels == {"linear", "exponential", ""}

\* turn sizes of the evaluated design points, in 0.1 mm
MaxTurn == 700

\* design points whose geometry leaves a cable space, for the materials of
\* each conductor evaluation
DesignPoints ==
    {p \in
    {[i_tf_sc_mat |-> m, i_tf_turns_integer |-> n, t_turn_tf_is_input |-> ti,
      t_turn_tf |-> t, output |-> o, c_tf_turn |-> 100000,
      bmaxtfrp |-> 60, tftmp |-> 45, croco_thick |-> 25, fcutfsu |-> 50,
      fhts |-> 50, tdmptf |-> 10, e_tf_magnetic_stored_total |-> 144000,
      quench_model |-> q, tmaxpro |-> 1500,
      bcritsc |-> 240, tcritsc |-> 160, i_str_wp |-> 1,
      str_tf_con_res |-> -5, str_wp |-> -6, b_crit_upper_nbti |-> 149,
      t_crit_nbti |-> 90] @@ GeomPoint :
        m \in {1, 2, 3, 6, 8}, n \in 0 .. 1, ti \in BOOLEAN,
        t \in {600, MaxTurn}, o \in BOOLEAN, q \in QuenchModels} :
        p.i_tf_sc_mat = 6 \/ p.quench_model = "exponential"}

\* the geometry step of an evaluation
CallGeometry ==
    /\ pc = "idle"
    /\ \E a \in DesignPoints : InternalGeomStep(a, "geometry")

\* the conductor step of the evaluation under way
CallConductor ==
    /\ pc = "geometry"
    /\ \E w \in {RunConductor(call.args, store)} : \E r \in {w.out} :
           /\ call' = [op |-> "evaluation", args |-> call.args,
                       made |-> w.made]
           /\ pc' = r.pc
           /\ ret' = [op |-> "evaluation", geometry |-> ret,
                      conductor |-> r.ret]
           /\ exc' = r.exc
           /\ store' = r.store
           /\ diags' = r.diags
           /\ logs' = r.logs
           /\ newton' = r.newton
           /\ lookup' = r.lookup
           /\ cond_frac' = r.fcond
           /\ UNCHANGED solver

NextEvaluate == CallGeometry \/ CallConductor \/ NextEvaluation

SpecEvaluate == Init /\ [][NextEvaluate]_vars

Evaluated == pc = "returned" /\ call.op = "evaluation"

\* the geometry step of the same design point run again, on the module
\* variables the evaluation just made has left
GeometryAgain == InternalGeom(call.args, store)

\* C15: an evaluation repeated with the same design point gives the cable
\* space, steel and insulation areas and the conductor results of the
\* first: nothing it yields depends on what the earlier evaluation left in
\* the module variables, for every material, 6 included.
EvaluationRepeatable ==
    Evaluated
    => /\ TurnAreas(GeometryAgain) = ret.geometry
       /\ Conductor(call.args,
                    [f \in DOMAIN store |-> GeometryAgain[f]]).ret
            = ret.conductor

\* the conductor step of an evaluation has ended
ConductorStepEnded == call.op = "evaluation" /\ pc \in {"returned", "raised"}

\* the methods the conductor step called
MadeCalls == {call.made[k] : k \in DOMAIN call.made}

\* material 6 goes to supercon_croco and never to supercon, every other
\* material to supercon and never to supercon_croco or croco_voltage
DispatchedByMaterial ==
    /\ call.made[1] = IF call.args.i_tf_sc_mat = 6 THEN "supercon_croco"
                      ELSE "supercon"
    /\ call.args.i_tf_sc_mat = 6 => "supercon" \notin MadeCalls
    /\ call.args.i_tf_sc_mat # 6
         => /\ "supercon_croco" \notin MadeCalls
            /\ "croco_voltage" \notin MadeCalls
    /\ exc # CrocoError

\* the dump voltage of the conductor step that has returned
StepDumpVoltage ==
    IF call.args.i_tf_sc_mat # 6 THEN ret.conductor.vd
    ELSE IF call.args.quench_model = ""  THEN <<0, 1>>
    ELSE DumpVoltage(store.c_tf_turn, StoredEnergyPerCoil(call.args),
                     call.args.tdmptf)

\* j_tf_wp_critical, tmargtf and vtfskv = dump voltage / 1e3 hold the
\* results of this conductor step
ResultsWritten ==
    /\ pc = "returned"
    /\ store.j_tf_wp_critical = ret.conductor.j_tf_wp_critical
    /\ store.tmargtf = ret.conductor.tmarg
    /\ store.vtfskv = RatDiv(StepDumpVoltage, 1000)

\* C25 as stated: run dispatches on the material selector (6 to
\* supercon_croco and croco_voltage, never supercon; every other id to
\* supercon, never supercon_croco) and in both cases writes
\* j_tf_wp_critical, tmargtf and vtfskv = dump voltage / 1000; the
\* material-6 failure of supercon is not reached.
RunDispatchAlwaysWrites ==
    ConductorStepEnded
    => /\ DispatchedByMaterial
       /\ call.args.i_tf_sc_mat = 6 => "croco_voltage" \in MadeCalls
       /\ ResultsWritten

\* C25: run dispatches on the material selector (6 to supercon_croco,
\* never supercon; every other id to supercon, never supercon_croco), so
\* the material-6 failure of supercon is not reached. When the conductor
\* call returns, run writes j_tf_wp_critical, tmargtf and vtfskv = dump
\* voltage / 1000, the dump voltage of material 6 being croco_voltage's;
\* when the call raises, run ends with its exception having written none
\* of the three.
RunDispatchWritesOnReturn ==
    /\ [](ConductorStepEnded
           => /\ DispatchedByMaterial
              /\ pc = "returned"
                   => /\ ResultsWritten
                      /\ call.args.i_tf_sc_mat = 6
                           => call.made = <<"supercon_croco",
                                            "croco_voltage">>
              /\ pc = "raised" => call.made = <<"supercon">>)
    /\ [][(pc = "geometry" /\ pc' = "raised")
            => /\ store'.j_tf_wp_critical = store.j_tf_wp_critical
               /\ store'.tmargtf = store.tmargtf
               /\ store'.vtfskv = store.vtfskv]_vars

\* a material-6 evaluation and a generic one after it have both written
\* their results
RunDispatchWitness ==
    /\ ConductorStepEnded
    /\ pc = "returned"
    /\ call.args.i_tf_sc_mat = 6
    /\ call.args.quench_model = "linear"
    /\ call.made = <<"supercon_croco", "croco_voltage">>
    /\ store.vtfskv # <<0, 1>>
    /\ store.tmargtf = ret.conductor.tmarg

---------------------------------------------------------------------------
(* run from the geometry to the conductor results: the coil stress         *)
(* calculation under its handler, the stress on quench, the conductor      *)
(* step. stresscl is a black box that returns its results or ends with an  *)
(* exception.                                                              *)

\* Largest case stress stresscl returns, in MPa
MaxStress == 600

\* the ways stresscl ends: with its results, with a ValueError carrying a
\* message alone or a message, a code and a further value, or with another
\* exception
StressOutcomes ==
    {[type |-> "none", args |-> << >>, sig_tf_case |-> v] :
        v \in {300, MaxStress}}
    \cup {[type |-> "ValueError", args |-> g, sig_tf_case |-> 0] :
            g \in {<<"stress">>, <<"stress", 245>>, <<"stress", 244>>,
                   <<"stress", 245, 0>>, <<"stress", 245, 1>>,
                   <<"stress", 244, 0>>}}
    \cup {[type |-> "RuntimeError", args |-> <<"stress">>, sig_tf_case |-> 0]}

\* e.args[k] of the handler, k counted from 0
HasArg(e, k) == k + 1 <= Len(e.args)

\* try: ... except ValueError as e:
\*     if e.args[1] == 245 and e.args[2] == 0: report, zero the stresses
\* The handler has no else: a ValueError it does not recognise is dropped;
\* an args tuple too short for the index it reads raises IndexError.
StressHandler(e) ==
    IF e.type = "none" THEN "assign"
    ELSE IF e.type # "ValueError" THEN "propagate"
    ELSE IF ~HasArg(e, 1) THEN "IndexError"
    ELSE IF e.args[2] # 245 THEN "drop"
    ELSE IF ~HasArg(e, 2) THEN "IndexError"
    ELSE IF e.args[3] = 0 THEN "report" ELSE "drop"

\* the store after the stress calculation and its handler
StressStore(e, how, st) ==
    IF how = "assign" THEN [st EXCEPT !.sig_tf_case = e.sig_tf_case]
    ELSE IF how = "report"
    THEN [st EXCEPT !.sig_tf_case = 0, !.sig_tf_wp = 0]
    ELSE st

\* the exception run ends with, if any
StressExc(e, how) ==
    IF how = "propagate"
    THEN [type |-> e.type, message |-> "", args |-> e.args]
    ELSE IF how = "IndexError"
    THEN [type |-> "IndexError", message |-> "tuple index out of range",
          args |-> << >>]
    ELSE NoExc

\* design points of the runs
RunPoints ==
    {p \in DesignPoints :
        /\ p.t_turn_tf = 600 /\ p.t_turn_tf_is_input
        /\ p.i_tf_turns_integer = 0 /\ p.quench_model = "exponential"}

\* the geometry step of a run
CallRunGeometry ==
    /\ pc = "idle"
    /\ \E a \in RunPoints : InternalGeomStep(a, "stress")

\* lines 161-332: the stress calculation under its handler, then
\* peaktfflag = 0 and vv_stress_on_quench, which writes vv_stress_quench
CallRunStress ==
    /\ pc = "stress"
    /\ \E e \in StressOutcomes : \E how \in {StressHandler(e)} :
         /\ call' = [op |-> "stresscl", args |-> call.args, stress |-> e,
                     handler |-> how]
         /\ pc' = IF how \in {"propagate", "IndexError"} THEN "raised"
                  ELSE "geometry"
         /\ exc' = StressExc(e, how)
         /\ diags' = IF how = "report" THEN diags \cup {245} ELSE diags
         /\ store' =
              IF how \in {"propagate", "IndexError"} THEN store
              ELSE [StressStore(e, how, store) EXCEPT
                       !.vv_stress_quench = VvStressOnQuench(VvPoint).stress]
         /\ UNCHANGED <<ret, logs, newton, lookup, cond_frac, solver>>

NextRun ==
    CallRunGeometry \/ CallRunStress \/ CallConductor \/ NextEvaluation

SpecRun == Init /\ [][NextRun]_vars

\* the stress calculation of the run under way has ended with ValueError
StressFailed == call.op = "stresscl" /\ call.stress.type = "ValueError"

\* the designated case: code 245 with the further value 0
Code245(e) == Len(e.args) >= 3 /\ e.args[2] = 245 /\ e.args[3] = 0

\* C26: a ValueError of the coil stress calculation during run is either
\* the code-245 case, for which diagnostic 245 is reported, sig_tf_case and
\* sig_tf_wp are set to 0 and run continues, or it ends run, which then
\* writes neither the stress on quench nor the conductor results.
StressErrorNeverDiscarded ==
    StressFailed
    => \/ /\ Code245(call.stress)
          /\ 245 \in diags
          /\ store.sig_tf_case = 0 /\ store.sig_tf_wp = 0
          /\ pc = "geometry"
       \/ /\ ~Code245(call.stress)
          /\ pc = "raised"

---------------------------------------------------------------------------
(* croco_voltage called on its own, on module variables drawn from small   *)
(* sets: the dump time in s, the stored energy of all coils, the number of *)
(* coils and the current per turn in A.                                    *)

\* Largest dump time drawn, in s
MaxDumpTime == 30

VoltageArgs ==
    [quench_model : QuenchModels, tdmptf : {10, 20, MaxDumpTime},
     e_tf_magnetic_stored_total : {144000, 288000, 432000},
     n_tf_coils : {16, 18}, c_tf_turn : {-40000, 40000, 100000}]

CallCrocoVoltage ==
    /\ pc = "idle"
    /\ \E a \in VoltageArgs :
         /\ call' = [op |-> "croco_voltage", args |-> a]
         /\ pc' = "returned"
         /\ ret' = [op |-> "croco_voltage",
                    value |-> CrocoVoltage(a.quench_model, a.tdmptf,
                                           a.e_tf_magnetic_stored_total,
                                           a.n_tf_coils, a.c_tf_turn)]
         /\ exc' = NoExc
         /\ UNCHANGED <<store, diags, logs, newton, lookup, cond_frac,
                       solver>>

NextVoltage == CallCrocoVoltage \/ NextEvaluation

SpecVoltage == Init /\ [][NextVoltage]_vars

VoltageCalled == pc = "returned" /\ call.op = "croco_voltage"

\* what protect returns as vd for the stored energy per coil, the dump
\* time and the current per turn of the last call, on a cable of 1000 mm^2
\* in a turn of 2000 mm^2 from 4.5 K to 150 K
ProtectVoltage ==
    Protect(call.args.c_tf_turn, StoredEnergyPerCoil(call.args), 1000, 2000,
            call.args.tdmptf, 68, 50, 45, 1500).vd

\* C30: for the quench models "linear" and "exponential" croco_voltage
\* returns 2 * (e_tf_magnetic_stored_total / n_tf_coils) / (tdmptf *
\* c_tf_turn), the vd of protect for that energy per coil, dump time and
\* current; for any other quench model it returns 0.
CrocoVoltageAgrees ==
    VoltageCalled
    => IF call.args.quench_model \in {"linear", "exponential"}
       THEN /\ ret.value = ProtectVoltage
            /\ ret.value[1] * (call.args.tdmptf * call.args.c_tf_turn
                                 * call.args.n_tf_coils)
                 = ret.value[2]
                     * (2 * call.args.e_tf_magnetic_stored_total)
       ELSE ret.value = <<0, 1>>

\* a call under the linear quench model has returned a voltage
CrocoVoltageWitness ==
    /\ VoltageCalled
    /\ call.args.quench_model = "linear"
    /\ call.args.n_tf_coils = 18
    /\ ret.value = ProtectVoltage
    /\ ret.value[1] > 0

---------------------------------------------------------------------------
(* Vmcon.solve, the adapter of the external optimiser.                     *)
(* The external solve is a black box: it ends by returning an iterate and  *)
(* its result, or with an exception that carries them. The objective and   *)
(* the constraint values are those the evaluator gave at the iterate.      *)

\* the classes an exception of each class is an instance of
ExceptionBases ==
    [LineSearchConvergenceException |->
        {"LineSearchConvergenceException", "VMCONConvergenceException",
         "Exception"},
     QSPSolverException |->
        {"QSPSolverException", "VMCONConvergenceException", "Exception"},
     VMCONConvergenceException |-> {"VMCONConvergenceException", "Exception"},
     ValueError |-> {"ValueError", "Exception"},
     RuntimeError |-> {"RuntimeError", "Exception"}]

IsInstance(type, class) ==
    type \in DOMAIN ExceptionBases /\ class \in ExceptionBases[type]

\* VmconProblem.__call__: the constraint vector is split into the first
\* nequality entries and the rest
VmconProblem(objf, conf, nequality) ==
    [f  |-> objf,
     eq |-> SubSeq(conf, 1, nequality),
     ie |-> SubSeq(conf, nequality + 1, Len(conf))]

\* an info code that does not tell the QSP failure from the others
SolveInfoNoQsp(type) ==
    IF IsInstance(type, "LineSearchConvergenceException") THEN 3 ELSE 2

\* the info code of a VMCON convergence exception
SolveInfo(type) ==
    IF IsInstance(type, "LineSearchConvergenceException") THEN 3
    ELSE IF IsInstance(type, "QSPSolverException") THEN 5
    ELSE 2

\* a constraint vector put together the other way round
SolveConfReversed(res) == res.ie \o res.eq

\* conf = np.hstack((res.eq, res.ie))
SolveConf(res) == res.eq \o res.ie

\* self.x, self.objf, self.conf and the returned self.info
SolveAssign(self, info, x, res, warnings) ==
    [pc |-> "returned", exc |-> NoExc,
     ret |-> [op |-> "solve", info |-> info],
     logs |-> warnings,
     solver |-> [info |-> info, x |-> x, objf |-> res.f,
                 conf |-> SolveConf(res)] @@ self]

\* an exception of the external solve that leaves solve
SolveRaise(self, o, warnings) ==
    [pc |-> "raised",
     exc |-> [type |-> o.type, message |-> "", args |-> << >>],
     ret |-> NoRet, logs |-> warnings, solver |-> self]

\* Vmcon.solve, given how the external solve ended
VmconSolve(self, o) ==
    IF o.type = "none"
    THEN SolveAssign(self, 1, o.x, o.result, {})
    ELSE IF IsInstance(o.type, "VMCONConvergenceException")
    THEN SolveAssign(self, SolveInfo(o.type), o.x, o.result, {"str(e)"})
    ELSE IF IsInstance(o.type, "ValueError")
    THEN SolveRaise(self, o, {"Active iteration variables are"})
    ELSE SolveRaise(self, o, {})

\* Largest number of constraints (m) of a problem
MaxConstraints == 2

\* the ways the external solve ends
SolveEnds ==
    {"none", "LineSearchConvergenceException", "QSPSolverException",
     "VMCONConvergenceException", "ValueError", "RuntimeError"}

\* constraint vectors of up to MaxConstraints entries
ConstraintVectors ==
    UNION {[1 .. m -> {-1, 2}] : m \in 0 .. MaxConstraints}

\* a problem (meq of its m constraints are equalities) and the end of the
\* external solve: the iterate, and the objective and constraints there
SolveCases ==
    {[type |-> t, x |-> x, objf |-> f, conf |-> c, meq |-> q] :
        t \in SolveEnds, x \in {<<10>>, <<25>>}, f \in {3, 7},
        c \in ConstraintVectors, q \in 0 .. MaxConstraints}

\* one call of Vmcon.solve, from its entry to its return or raise
CallSolve ==
    /\ pc = "idle"
    /\ \E a \in {c \in SolveCases : c.meq <= Len(c.conf)} :
         \E r \in {VmconSolve(solver,
                     [type |-> a.type, x |-> a.x,
                      result |-> VmconProblem(a.objf, a.conf, a.meq)])} :
             /\ call' = [op |-> "solve", args |-> a]
             /\ pc' = r.pc
             /\ ret' = r.ret
             /\ exc' = r.exc
             /\ logs' = r.logs
             /\ solver' = r.solver
             /\ UNCHANGED <<store, diags, newton, lookup, cond_frac>>

\* the caller takes the outcome and may call again on the same object
NextSolveCall ==
    /\ pc \in {"returned", "raised"}
    /\ call.op = "solve"
    /\ pc' = "idle"
    /\ call' = [op |-> "none"]
    /\ ret' = NoRet
    /\ exc' = NoExc
    /\ logs' = {}
    /\ UNCHANGED <<store, diags, newton, lookup, cond_frac, solver>>

NextSolve == CallSolve \/ NextSolveCall

SpecSolve == Init /\ [][NextSolve]_vars

SolveCalled == pc # "idle" /\ call.op = "solve"

\* C21: solve returns 1 exactly when the external solve returns normally, 3
\* for a line-search failure, 5 for a QSP failure, 2 for any other VMCON
\* convergence exception; a ValueError is re-raised and no code returned.
SolveCodeTyped ==
    SolveCalled
    => /\ (pc = "returned" /\ ret.info = 1) <=> call.args.type = "none"
       /\ call.args.type = "LineSearchConvergenceException"
            => pc = "returned" /\ ret.info = 3
       /\ call.args.type = "QSPSolverException"
            => pc = "returned" /\ ret.info = 5
       /\ call.args.type = "VMCONConvergenceException"
            => pc = "returned" /\ ret.info = 2
       /\ call.args.type = "ValueError"
            => pc = "raised" /\ exc.type = "ValueError" /\ ret = NoRet

SolveCodeWitness ==
    /\ SolveCalled
    /\ call.args.type = "QSPSolverException"
    /\ pc = "returned"
    /\ ret.info = 5
    /\ solver.info = 5

\* the attributes a call of solve assigns
SolveAttributes == {"info", "x", "objf", "conf"}

\* C29: after a VMCON convergence exception solve has set x, objf and conf
\* from the iterate and the result the exception carries (conf being the
\* equality constraints followed by the inequality constraints) and has
\* returned; after a ValueError the call has assigned none of info, x, objf
\* and conf.
SolveKeepsIterate ==
    /\ [](SolveCalled
           /\ IsInstance(call.args.type, "VMCONConvergenceException")
        => /\ pc = "returned"
           /\ SolveAttributes \subseteq DOMAIN solver
           /\ solver.x = call.args.x
           /\ solver.objf = call.args.objf
           /\ solver.conf = call.args.conf
           /\ solver.conf =
                SubSeq(call.args.conf, 1, call.args.meq)
                  \o SubSeq(call.args.conf, call.args.meq + 1,
                            Len(call.args.conf)))
    /\ [][(pc = "idle" /\ pc' = "raised" /\ call'.op = "solve"
            /\ call'.args.type = "ValueError")
          => solver' = solver]_vars

SolveKeepsIterateWitness ==
    /\ SolveCalled
    /\ call.args.type = "LineSearchConvergenceException"
    /\ call.args.meq = 1
    /\ Len(call.args.conf) = 2
    /\ call.args.conf[1] # call.args.conf[2]
    /\ pc = "returned"
    /\ solver.conf = call.args.conf

============================================================================
